---------------------------- MODULE Spec2Model ----------------------------
(***************************************************************************)
(* A model of the magic-button Figma plugin: the scene-graph-to-markup     *)
(* converter (convert.ts), the plugin entry point (code.ts) and the        *)
(* packaging UI (ui.tsx).                                                  *)
(*                                                                         *)
(* Strings that the code inspects character by character (node names,      *)
(* paths) are sequences of one-character strings.  Markup is a sequence of *)
(* tokens, one "open"/"close" pair per emitted element, "nl" for the "\n"  *)
(* separator that Array.join inserts.                                      *)
(***************************************************************************)
EXTENDS Integers, Sequences, FiniteSets, TLC

(***************************************************************************)
(* Bounds of the model.                                                    *)
(***************************************************************************)
MaxNameLen == 2     \* length of the free part of a name fed to nameToPath
MaxTop == 3         \* top-level nodes of a page of the routing families
MaxWidth == 2       \* widths of top-level nodes are 1..MaxWidth
MaxEntryTop == 2    \* top-level nodes of a page of the entry-point family
MaxCoord == 1       \* x and y of top-level nodes are 0..MaxCoord
MaxHash == 2        \* image content hashes (and raster byte contents) are 1..MaxHash
MaxTextLen == 3     \* characters of a text node fed to the span segmentation
MaxMargin == 1      \* distances of a node from the sides of its parent are 0..MaxMargin
MaxPaints == 2      \* paints in a fill or stroke list
MaxTail == 1        \* paints put in the place of those after the first visible one
MaxShift == 1       \* translations of a placed node are 0..MaxShift on each axis
MaxSize == 2        \* width and height of a placed node are 1..MaxSize
MaxGroupDepth == 2  \* Groups between a placed node and its frame

Null == "null"
NoBytes == 0

(***************************************************************************)
(* String helpers: String.prototype.toLowerCase, endsWith and              *)
(* replace(/\W+/g, "-") on sequences of characters.                        *)
(***************************************************************************)
UpperChars == <<"A","B","C","D","E","F","G","H","I","J","K","L","M",
                "N","O","P","Q","R","S","T","U","V","W","X","Y","Z">>
LowerChars == <<"a","b","c","d","e","f","g","h","i","j","k","l","m",
                "n","o","p","q","r","s","t","u","v","w","x","y","z">>
DigitChars == <<"0","1","2","3","4","5","6","7","8","9">>

Range(s) == { s[i] : i \in DOMAIN s }

LowerChar(c) ==
    IF \E i \in DOMAIN UpperChars : UpperChars[i] = c
    THEN LowerChars[CHOOSE i \in DOMAIN UpperChars : UpperChars[i] = c]
    ELSE c

toLowerCase(s) == [ i \in DOMAIN s |-> LowerChar(s[i]) ]

\* \w of a JavaScript regular expression: [A-Za-z0-9_]
IsWordChar(c) ==
    c \in Range(UpperChars) \cup Range(LowerChars) \cup Range(DigitChars) \cup {"_"}

endsWith(s, suffix) ==
    /\ Len(s) >= Len(suffix)
    /\ SubSeq(s, Len(s) - Len(suffix) + 1, Len(s)) = suffix

\* s.replace(/\W+/g, "-"): every maximal run of non-word characters becomes
\* one hyphen.
RECURSIVE replaceNonWord(_)
replaceNonWord(s) ==
    IF s = <<>> THEN <<>>
    ELSE IF IsWordChar(Head(s)) THEN <<Head(s)>> \o replaceNonWord(Tail(s))
    ELSE IF Len(s) > 1 /\ ~IsWordChar(s[2]) THEN replaceNonWord(Tail(s))
    ELSE <<"-">> \o replaceNonWord(Tail(s))

DotHtml == <<".","h","t","m","l">>
IndexHtml == <<"/","i","n","d","e","x",".","h","t","m","l">>

\* A plausible slip: the two branches of the conditional exchanged.
nameToPathSwapped(name) ==
    LET n == toLowerCase(name)
    IN  <<"/">> \o (IF endsWith(n, DotHtml) THEN replaceNonWord(n) \o IndexHtml ELSE n)

nameToPath(name) ==
    LET n == toLowerCase(name)
    IN  <<"/">> \o (IF endsWith(n, DotHtml) THEN n ELSE replaceNonWord(n) \o IndexHtml)


(***************************************************************************)
(* The document.  Nodes are numbered from 1; NoNode stands for null (no    *)
(* prototypeStartNode, no startFrame).  doc.top is the page's child list,  *)
(* doc.kids[n] the child list of node n, doc.node[n] the node's fields.    *)
(***************************************************************************)
NoNode == 0

NmHome == <<"H","o">>
NmHomeLower == <<"h","o">>
NmAbout == <<"A">>
NmFavicon == <<"f","a","v","i","c","o","n",".","i","c","o">>
TopNames == { NmHome, NmHomeLower, NmAbout }

ConvertibleTypes == { "FRAME", "COMPONENT", "INSTANCE" }
ShapeTypes == { "BOOLEAN_OPERATION", "VECTOR", "STAR", "LINE", "ELLIPSE", "POLYGON" }

SolidPaint == [ type |-> "SOLID", visible |-> TRUE, hash |-> 0 ]
ImagePaint(h) == [ type |-> "IMAGE", visible |-> TRUE, hash |-> h ]

DefaultNode ==
    [ type |-> "FRAME", name |-> NmHome, visible |-> TRUE, width |-> 1,
      x |-> 0, y |-> 0, reactions |-> <<>>, fills |-> <<>>, strokes |-> <<>>,
      layoutMode |-> "NONE", rotation |-> 0, font |-> 0 ]

NoKids(k) == [ n \in 1..k |-> <<>> ]
Iota(k) == [ i \in 1..k |-> i ]

\* A page of k top-level frames of the given names and widths: the inputs of
\* the routing table.
RouteDoc(k, nm, w) ==
    [ top |-> Iota(k), kids |-> NoKids(k), start |-> NoNode,
      node |-> [ n \in 1..k |-> [ DefaultNode EXCEPT !.name = nm[n], !.width = w[n] ] ] ]

\* A page of k top-level nodes, convertible or not, at the given positions,
\* with or without a prototype start node, with or without a favicon frame:
\* the inputs of the entry-point resolution.
EntryDoc(k, ty, xs, ys, st, fav) ==
    [ top |-> Iota(k), kids |-> NoKids(k),
      start |-> IF st THEN k ELSE NoNode,
      node |-> [ n \in 1..k |->
          [ DefaultNode EXCEPT
              !.name = IF n = 1 /\ fav THEN NmFavicon ELSE <<LowerChars[n]>>,
              !.type = ty[n], !.x = xs[n], !.y = ys[n] ] ] ]

\* A page with one top-level frame (1) holding a container (2, a Group or a
\* Frame, with the leaf 3 inside) followed by the leaf 4.  The leaves are
\* rectangles, vectors or text; at most one node is hidden; the nodes of rx
\* carry its reactions, named by their triggers (AFTER_TIMEOUT is a trigger
\* eventHandlingAttributes has no case for).
LeafKinds(hashes) ==
    { [ type |-> "RECTANGLE", fills |-> <<SolidPaint>> ],
      [ type |-> "VECTOR", fills |-> <<SolidPaint>> ],
      [ type |-> "TEXT", fills |-> <<SolidPaint>> ] }
    \cup { [ type |-> "RECTANGLE", fills |-> <<ImagePaint(h)>> ] : h \in hashes }
    \cup { [ type |-> "VECTOR", fills |-> <<ImagePaint(h)>> ] : h \in hashes }

\* A rectangle filled with an image paint whose imageHash is null.
NullImageLeaf == [ type |-> "RECTANGLE", fills |-> <<ImagePaint(0)>> ]

TreeKids == <<  <<2, 4>>, <<3>>, <<>>, <<>>  >>

ReactionChoices ==
    { [ nodes |-> {}, triggers |-> <<>> ],
      [ nodes |-> {4}, triggers |-> <<"ON_CLICK">> ],
      [ nodes |-> {1, 2, 3, 4}, triggers |-> <<"ON_CLICK">> ],
      [ nodes |-> {3, 4}, triggers |-> <<"AFTER_TIMEOUT", "MOUSE_UP", "ON_HOVER">> ] }

TreeContainers ==
    { [ type |-> "GROUP", layout |-> "NONE" ],
      [ type |-> "GROUP", layout |-> "VERTICAL" ],
      [ type |-> "GROUP", layout |-> "HORIZONTAL" ],
      [ type |-> "FRAME", layout |-> "NONE" ] }

TreeDoc(c, l3, l4, hidden, rx) ==
    [ top |-> <<1>>, kids |-> TreeKids, start |-> NoNode,
      node |-> [ n \in 1..4 |->
          [ DefaultNode EXCEPT
              !.type = CASE n = 1 -> "FRAME" [] n = 2 -> c.type
                         [] n = 3 -> l3.type [] OTHER -> l4.type,
              !.layoutMode = IF n = 1 THEN c.layout ELSE "NONE",
              !.fills = CASE n = 1 -> <<>> [] n = 2 -> <<>>
                          [] n = 3 -> l3.fills [] OTHER -> l4.fills,
              !.visible = (n # hidden),
              !.font = IF (n = 3 /\ l3.type = "TEXT") \/ (n = 4 /\ l4.type = "TEXT")
                       THEN n ELSE 0,
              !.reactions = IF n \in rx.nodes THEN rx.triggers ELSE <<>> ] ] ]

\* A page with one top-level frame (1) holding a container (2) that holds a
\* container (3, with the vector 5 inside) and the vector 4: a subtree of
\* shapes and containers of shapes.  The nodes of rx carry a click reaction;
\* frame 1 is a vertical auto-layout frame (auto = 1), or frame 2 a horizontal
\* one (auto = 2), or neither (auto = 0).
DeepKids == <<  <<2>>, <<3, 4>>, <<5>>, <<>>, <<>>  >>

DeepReactionChoices == { {}, {3}, {4}, {5} }

DeepDoc(c2, c3, rx, auto) ==
    [ top |-> <<1>>, kids |-> DeepKids, start |-> NoNode,
      node |-> [ n \in 1..5 |->
          [ DefaultNode EXCEPT
              !.type = CASE n = 1 -> "FRAME" [] n = 2 -> c2 [] n = 3 -> c3
                         [] OTHER -> "VECTOR",
              !.layoutMode = CASE n = 1 /\ auto = 1 -> "VERTICAL"
                               [] n = 2 /\ auto = 2 -> "HORIZONTAL"
                               [] OTHER -> "NONE",
              !.fills = IF n > 3 THEN <<SolidPaint>> ELSE <<>>,
              !.reactions = IF n \in rx THEN <<"ON_CLICK">> ELSE <<>> ] ] ]

(***************************************************************************)
(* State.  The module-level tables of convert.ts keep their names; pc,     *)
(* result and ev hold, per node, the position of the asynchronous call     *)
(* converting it, the markup it resolved to and the handler attributes it  *)
(* computed; doneOrder is the order in which the calls resolved;           *)
(* shapeExports lists, per node, the exportAsync calls convertShape made   *)
(* on it and how each ended; frameLocals holds what convertPage and        *)
(* convertTopLevelFrame read from the tables before an await and use after *)
(* it (path, and the class of the frame's div).  doc and the variables that are local to a    *)
(* call of convert belong to the call whose continuations are being run;   *)
(* parked holds those of a second call that is suspended meanwhile.        *)
(***************************************************************************)
VARIABLES doc, runPc, posted, images, fonts, frameIdToPath, frameIdToSize,
          hasMobileVersion, actions, startFrame, pathToHtml, favicon, pageIdx,
          pc, result, ev, doneOrder, nextKey, shapeExports, frameLocals, parked,
          pathRun, textRun, layoutRun, paintRun, compiled, ui

convVars == << runPc, posted, images, fonts, frameIdToPath, frameIdToSize,
               hasMobileVersion, actions, startFrame, pathToHtml, favicon,
               pageIdx, pc, result, ev, doneOrder, nextKey, shapeExports,
               frameLocals >>
\* The runs of the pure functions, one variable per function.
pureVars == << pathRun, textRun, layoutRun, paintRun >>
\* The plugin's UI: the bundle compileForNetlify made of the last message,
\* and the state of App with the position of its deploySite call.
uiVars == << compiled, ui >>
vars == << doc, convVars, parked, pureVars, uiVars >>

NoFrameLocals == [ path |-> <<>>, cls |-> "" ]

Nodes == DOMAIN doc.node
TopSet == Range(doc.top)
Type(n) == doc.node[n].type

ParentOf(n) ==
    IF \E p \in Nodes : n \in Range(doc.kids[p])
    THEN CHOOSE p \in Nodes : n \in Range(doc.kids[p])
    ELSE NoNode

\* The state of one conversion as a record, so that the synchronous stretch
\* of code between two awaits is a function from record to record.
Cur ==
    [ runPc |-> runPc, posted |-> posted, images |-> images, fonts |-> fonts,
      frameIdToPath |-> frameIdToPath, frameIdToSize |-> frameIdToSize,
      hasMobileVersion |-> hasMobileVersion, actions |-> actions,
      startFrame |-> startFrame, pathToHtml |-> pathToHtml, favicon |-> favicon,
      pageIdx |-> pageIdx, pc |-> pc, result |-> result, ev |-> ev,
      doneOrder |-> doneOrder, nextKey |-> nextKey, shapeExports |-> shapeExports,
      frameLocals |-> frameLocals ]

Commit(W) ==
    /\ runPc' = W.runPc
    /\ posted' = W.posted
    /\ images' = W.images
    /\ fonts' = W.fonts
    /\ frameIdToPath' = W.frameIdToPath
    /\ frameIdToSize' = W.frameIdToSize
    /\ hasMobileVersion' = W.hasMobileVersion
    /\ actions' = W.actions
    /\ startFrame' = W.startFrame
    /\ pathToHtml' = W.pathToHtml
    /\ favicon' = W.favicon
    /\ pageIdx' = W.pageIdx
    /\ pc' = W.pc
    /\ result' = W.result
    /\ ev' = W.ev
    /\ doneOrder' = W.doneOrder
    /\ nextKey' = W.nextKey
    /\ shapeExports' = W.shapeExports
    /\ frameLocals' = W.frameLocals

(***************************************************************************)
(* convert: the routing table.                                             *)
(***************************************************************************)
Put(f, k, v) == (k :> v) @@ f

\* A plausible slip: the comparison turned around.
IsNarrowerFlipped(child, other) == doc.node[child].width > doc.node[other].width

\* pageChild.width < figma.getNodeById(otherFrame).width
IsNarrower(child, other) == doc.node[child].width < doc.node[other].width

\* A routing step that flags the newcomer desktop and leaves the flag of the
\* frame it replaces alone.
RouteChildNoDemotion(rt, child) ==
    IF Type(child) \notin ConvertibleTypes THEN rt
    ELSE
      LET path == nameToPath(doc.node[child].name)
          asDesktop(r) ==
              [ r EXCEPT !.frameIdToSize = Put(@, child, "desktop"),
                         !.frameIdToPath = Put(@, child, path),
                         !.pathToFrameId = Put(@, path, child) ]
      IN  IF path \in DOMAIN rt.pathToFrameId
          THEN LET otherFrame == rt.pathToFrameId[path]
               IN  IF rt.frameIdToSize[otherFrame] = "mobile"
                   THEN rt
                   ELSE IF IsNarrower(child, otherFrame)
                   THEN [ rt EXCEPT !.hasMobileVersion = Put(@, path, TRUE),
                                    !.frameIdToSize = Put(@, child, "mobile"),
                                    !.frameIdToPath = Put(@, child, path) ]
                   ELSE asDesktop([ rt EXCEPT
                                    !.hasMobileVersion = Put(@, path, TRUE) ])
          ELSE asDesktop(rt)

\* One iteration of the loop over node.children; rt holds frameIdToPath,
\* frameIdToSize, hasMobileVersion and the local pathToFrameId.
RouteChild(rt, child) ==
    IF Type(child) \notin ConvertibleTypes THEN rt
    ELSE
      LET path == nameToPath(doc.node[child].name)
          asDesktop(r) ==
              [ r EXCEPT !.frameIdToSize = Put(@, child, "desktop"),
                         !.frameIdToPath = Put(@, child, path),
                         !.pathToFrameId = Put(@, path, child) ]
      IN  IF path \in DOMAIN rt.pathToFrameId
          THEN LET otherFrame == rt.pathToFrameId[path]
               IN  IF rt.frameIdToSize[otherFrame] = "mobile"
                   THEN rt   \* this path already has a mobile version, skip it
                   ELSE IF IsNarrower(child, otherFrame)
                   THEN [ rt EXCEPT !.hasMobileVersion = Put(@, path, TRUE),
                                    !.frameIdToSize = Put(@, child, "mobile"),
                                    !.frameIdToPath = Put(@, child, path) ]
                   ELSE asDesktop([ rt EXCEPT
                                    !.hasMobileVersion = Put(@, path, TRUE),
                                    !.frameIdToSize = Put(@, otherFrame, "mobile") ])
          ELSE asDesktop(rt)

RECURSIVE RouteFrom(_, _)
RouteFrom(rt, i) ==
    IF i > Len(doc.top) THEN rt ELSE RouteFrom(RouteChild(rt, doc.top[i]), i + 1)

EmptyRouting ==
    [ frameIdToPath |-> <<>>, frameIdToSize |-> <<>>, hasMobileVersion |-> <<>>,
      pathToFrameId |-> <<>> ]

BuildRoutingTable == RouteFrom(EmptyRouting, 1)

(***************************************************************************)
(* convert: the start frame.                                               *)
(***************************************************************************)
\* A plausible slip: x compared before y.
ComesBeforeXFirst(a, b) ==
    \/ doc.node[a].x < doc.node[b].x
    \/ (doc.node[a].x = doc.node[b].x /\ doc.node[a].y < doc.node[b].y)

\* pageChild.y < startFrame.y || (pageChild.y === startFrame.y && pageChild.x < startFrame.x)
ComesBefore(a, b) ==
    \/ doc.node[a].y < doc.node[b].y
    \/ (doc.node[a].y = doc.node[b].y /\ doc.node[a].x < doc.node[b].x)

RECURSIVE TopLeftMost(_, _)
TopLeftMost(sf, i) ==
    IF i > Len(doc.top) THEN sf
    ELSE LET pageChild == doc.top[i]
         IN  IF Type(pageChild) \notin ConvertibleTypes THEN TopLeftMost(sf, i + 1)
             ELSE IF sf = NoNode THEN TopLeftMost(pageChild, i + 1)
             ELSE IF ComesBefore(pageChild, sf) THEN TopLeftMost(pageChild, i + 1)
             ELSE TopLeftMost(sf, i + 1)

FindStartFrame ==
    IF doc.start # NoNode THEN doc.start ELSE TopLeftMost(NoNode, 1)

(***************************************************************************)
(* Markup.  An element is an "open" token carrying the node, its handler   *)
(* attributes and its class, the content, and a "close" token.  The style  *)
(* strings are left out.                                                   *)
(***************************************************************************)
Tok(k, n, e, c) == [ k |-> k, id |-> n, ev |-> e, cls |-> c ]
NL == Tok("nl", NoNode, <<>>, "")

\* The first ancestor that is not a Group, as getLayoutStyle walks to it.
RECURSIVE LayoutParent(_)
LayoutParent(n) ==
    LET p == ParentOf(n)
    IN  IF p # NoNode /\ Type(p) = "GROUP" THEN LayoutParent(p) ELSE p

outerClass(n) ==
    LET p == LayoutParent(n)
    IN  IF p = NoNode THEN "outerDiv"
        ELSE CASE doc.node[p].layoutMode = "VERTICAL" -> "autolayoutVchild"
               [] doc.node[p].layoutMode = "HORIZONTAL" -> "autolayoutHchild"
               [] OTHER -> "outerDiv"

h(n, e, content) ==
    <<Tok("open", n, e, outerClass(n))>> \o content \o <<Tok("close", n, <<>>, "")>>

(***************************************************************************)
(* eventHandlingAttributes                                                 *)
(***************************************************************************)
TriggerAttr(trigger) ==
    CASE trigger = "ON_CLICK" -> "onclick"
      [] trigger = "MOUSE_DOWN" -> "onpointerdown"
      [] trigger \in { "ON_PRESS", "MOUSE_UP" } -> "onpointerup"
      [] trigger = "ON_HOVER" -> "onmouseover"
      [] OTHER -> Null

\* A plausible slip: actionId read after the push.
RECURSIVE HandleReactionsIdAfterPush(_, _, _)
HandleReactionsIdAfterPush(acc, n, i) ==
    IF i > Len(doc.node[n].reactions) THEN acc
    ELSE LET attr == TriggerAttr(doc.node[n].reactions[i])
         IN  IF attr = Null THEN HandleReactionsIdAfterPush(acc, n, i + 1)
             ELSE HandleReactionsIdAfterPush(
                    [ actions |-> Append(acc.actions, [ node |-> n, reaction |-> i ]),
                      attributes |-> Append(acc.attributes,
                                            [ attr |-> attr,
                                              actionId |-> Len(acc.actions) + 1 ]) ],
                    n, i + 1)

\* The loop over the reactions of node n from reaction i on; acc holds the
\* action list and the attributes so far.  An action is named by the node and
\* the position of its reaction; actionId is the list's length before the push.
RECURSIVE HandleReactions(_, _, _)
HandleReactions(acc, n, i) ==
    IF i > Len(doc.node[n].reactions) THEN acc
    ELSE LET attr == TriggerAttr(doc.node[n].reactions[i])
         IN  IF attr = Null THEN HandleReactions(acc, n, i + 1)
             ELSE HandleReactions(
                    [ actions |-> Append(acc.actions, [ node |-> n, reaction |-> i ]),
                      attributes |-> Append(acc.attributes,
                                            [ attr |-> attr, actionId |-> Len(acc.actions) ]) ],
                    n, i + 1)

eventHandlingAttributes(W, n) ==
    LET r == HandleReactions([ actions |-> W.actions, attributes |-> <<>> ], n, 1)
    IN  [ W EXCEPT !.actions = r.actions, !.ev = [ @ EXCEPT ![n] = r.attributes ] ]

(***************************************************************************)
(* Paint resolution: what the first usable paint of a list makes           *)
(* getBackgroundStyleForPaints and getStrokeStyleForPaints do.             *)
(***************************************************************************)
Resolved(kind, hash) == [ kind |-> kind, hash |-> hash ]

\* A plausible slip: the visible flag of a paint not consulted.
RECURSIVE getBackgroundStyleForPaintsAnyVisibility(_)
getBackgroundStyleForPaintsAnyVisibility(paints) ==
    IF paints = <<>> THEN Resolved("none", 0)
    ELSE LET paint == Head(paints)
         IN  CASE paint.type = "SOLID" -> Resolved("solid", 0)
               [] paint.type = "IMAGE" ->
                    IF paint.hash # 0 THEN Resolved("image", paint.hash)
                    ELSE Resolved("throws", 0)
               [] paint.type = "GRADIENT_LINEAR" -> Resolved("linear", 0)
               [] paint.type = "GRADIENT_RADIAL" -> Resolved("radial", 0)
               [] OTHER -> getBackgroundStyleForPaintsAnyVisibility(Tail(paints))

RECURSIVE getBackgroundStyleForPaints(_)
getBackgroundStyleForPaints(paints) ==
    IF paints = <<>> THEN Resolved("none", 0)
    ELSE LET paint == Head(paints)
         IN  IF ~paint.visible THEN getBackgroundStyleForPaints(Tail(paints))
             ELSE CASE paint.type = "SOLID" -> Resolved("solid", 0)
                    [] paint.type = "IMAGE" ->
                         IF paint.hash # 0 THEN Resolved("image", paint.hash)
                         \* falls through to paintToLinearGradient, which reads
                         \* gradientTransform[0][0] of a paint that has none
                         ELSE Resolved("throws", 0)
                    [] paint.type = "GRADIENT_LINEAR" -> Resolved("linear", 0)
                    [] paint.type = "GRADIENT_RADIAL" -> Resolved("radial", 0)
                    \* diamond, angular: no return, the loop goes on
                    [] OTHER -> getBackgroundStyleForPaints(Tail(paints))

RECURSIVE getStrokeStyleForPaints(_)
getStrokeStyleForPaints(paints) ==
    IF paints = <<>> THEN Resolved("none", 0)
    ELSE LET paint == Head(paints)
         IN  IF ~paint.visible THEN getStrokeStyleForPaints(Tail(paints))
             ELSE CASE paint.type = "SOLID" -> Resolved("solid", 0)
                    [] paint.type = "IMAGE" ->
                         IF paint.hash # 0 THEN Resolved("image", paint.hash)
                         ELSE Resolved("throws", 0)
                    [] paint.type = "GRADIENT_LINEAR" -> Resolved("linear", 0)
                    [] paint.type = "GRADIENT_RADIAL" -> Resolved("radial", 0)
                    [] OTHER -> Resolved("none", 0)

HashKey(hash) == [ provisional |-> FALSE, id |-> hash ]
ProvisionalKey(k) == [ provisional |-> TRUE, id |-> k ]

\* A plausible slip: the image filed under a fresh key instead of its hash.
registerImageFresh(W, hash) ==
    [ W EXCEPT !.images = Put(@, ProvisionalKey(W.nextKey),
                              [ bytes |-> hash, path |-> ProvisionalKey(W.nextKey) ]),
               !.nextKey = @ + 1 ]

\* images[hash] = { bytes, path }: the bytes of an image are the content its
\* hash names.
registerImage(W, hash) ==
    [ W EXCEPT !.images = Put(@, HashKey(hash), [ bytes |-> hash, path |-> HashKey(hash) ]) ]

(***************************************************************************)
(* The tree walk.  A call of an async function runs synchronously up to    *)
(* its first await; the ...Start operators are those stretches, applied to *)
(* the children in the order in which convertChildren calls them.          *)
(***************************************************************************)
ContainerTypes == { "GROUP", "FRAME", "INSTANCE", "COMPONENT" }

\* A plausible slip: the reactions of the children not looked at.
RECURSIVE isVectorSubtreeWhateverReactions(_)
isVectorSubtreeWhateverReactions(n) ==
    \A i \in DOMAIN doc.kids[n] :
        LET child == doc.kids[n][i]
        IN  IF Type(child) \in ContainerTypes THEN isVectorSubtreeWhateverReactions(child)
            ELSE Type(child) \in ShapeTypes \cup { "SLICE" }

RECURSIVE isVectorSubtree(_)
isVectorSubtree(n) ==
    \A i \in DOMAIN doc.kids[n] :
        LET child == doc.kids[n][i]
        IN  /\ ~(Type(child) # "SLICE" /\ doc.node[child].reactions # <<>>)
            /\ IF Type(child) \in ContainerTypes THEN isVectorSubtree(child)
               ELSE Type(child) \in ShapeTypes \cup { "SLICE" }

Call(n, how) == [ node |-> n, how |-> how ]

\* A plausible slip: a Group converted as a unit whatever its parent is.
RECURSIVE appendChildrenReifyAnywhere(_)
appendChildrenReifyAnywhere(children) ==
    IF children = <<>> THEN <<>>
    ELSE LET child == Head(children)
             rest == appendChildrenReifyAnywhere(Tail(children))
         IN  IF Type(child) # "GROUP" THEN <<Call(child, "convertNode")>> \o rest
             ELSE IF ~doc.node[child].visible THEN rest
             ELSE IF isVectorSubtree(child) THEN <<Call(child, "convertShape")>> \o rest
             ELSE <<Call(child, "convertNode")>> \o rest

\* The calls convertChildren makes for a child list, in order: Groups are
\* dropped when hidden, exported whole when decorative, converted as a unit
\* under an auto-layout parent and otherwise replaced by their children.
RECURSIVE appendChildren(_)
appendChildren(children) ==
    IF children = <<>> THEN <<>>
    ELSE LET child == Head(children)
             parent == ParentOf(child)
             rest == appendChildren(Tail(children))
         IN  IF Type(child) # "GROUP" THEN <<Call(child, "convertNode")>> \o rest
             ELSE IF ~doc.node[child].visible THEN rest
             ELSE IF isVectorSubtree(child) THEN <<Call(child, "convertShape")>> \o rest
             ELSE IF /\ parent # NoNode
                     /\ Type(parent) \in ConvertibleTypes
                     /\ doc.node[parent].layoutMode # "NONE"
                  THEN <<Call(child, "convertNode")>> \o rest
             ELSE appendChildren(doc.kids[child]) \o rest

allChildren(n) == appendChildren(doc.kids[n])

Resolve(W, n, markup) ==
    [ W EXCEPT !.pc = [ @ EXCEPT ![n] = "done" ],
               !.result = [ @ EXCEPT ![n] = markup ],
               !.doneOrder = Append(@, n) ]

At(W, n, where) == [ W EXCEPT !.pc = [ @ EXCEPT ![n] = where ] ]

hasImage(n) == \E i \in DOMAIN doc.node[n].fills : doc.node[n].fills[i].type = "IMAGE"

\* A plausible slip: the SVG export tried whatever the fills are.
convertShapeStartSvgFirst(W, n) == At(eventHandlingAttributes(W, n), n, "svg")

\* convertShape up to its first export: the handlers are computed (and the
\* actions pushed) before anything is awaited.
convertShapeStart(W, n) ==
    At(eventHandlingAttributes(W, n), n, IF hasImage(n) THEN "png" ELSE "svg")

convertFrameStart(W, n) ==
    IF isVectorSubtree(n) THEN convertShapeStart(W, n) ELSE At(W, n, "stroke")

convertRectangleStart(W, n) ==
    IF doc.node[n].rotation # 0 THEN convertShapeStart(W, n) ELSE At(W, n, "stroke")

\* convertText is synchronous: handlers, font, spans.
convertText(W, n) ==
    LET W1 == eventHandlingAttributes(W, n)
        W2 == [ W1 EXCEPT !.fonts = @ \cup { doc.node[n].font } ]
    IN  Resolve(W2, n, h(n, W2.ev[n], <<Tok("span", n, <<>>, "")>>))

RECURSIVE convertNodeStart(_, _)
RECURSIVE startAll(_, _)

convertAutolayoutGroupStart(W, n) ==
    At(startAll(W, allChildren(n)), n, "children")

convertNodeStart(W, n) ==
    IF ~doc.node[n].visible THEN Resolve(W, n, <<>>)
    ELSE CASE Type(n) = "SLICE" -> Resolve(W, n, <<>>)
           [] Type(n) = "GROUP" -> convertAutolayoutGroupStart(W, n)
           [] Type(n) \in ConvertibleTypes -> convertFrameStart(W, n)
           [] Type(n) \in ShapeTypes -> convertShapeStart(W, n)
           [] Type(n) = "RECTANGLE" -> convertRectangleStart(W, n)
           [] Type(n) = "TEXT" -> convertText(W, n)

startAll(W, calls) ==
    IF calls = <<>> THEN W
    ELSE LET c == Head(calls)
             W1 == IF c.how = "convertShape" THEN convertShapeStart(W, c.node)
                   ELSE convertNodeStart(W, c.node)
         IN  startAll(W1, Tail(calls))

\* convertChildren up to its await of Promise.all
convertChildrenStart(W, n) == At(startAll(W, allChildren(n)), n, "children")

allDone(W, n) ==
    \A i \in DOMAIN allChildren(n) : W.pc[allChildren(n)[i].node] = "done"

RECURSIVE joinSeq(_, _)
joinSeq(W, ns) ==
    IF ns = <<>> THEN <<>>
    ELSE W.result[Head(ns)]
         \o (IF Len(ns) > 1 THEN <<NL>> \o joinSeq(W, Tail(ns)) ELSE <<>>)

\* A plausible slip: the results joined in the order in which they arrived.
joinChildrenByCompletion(W, n) ==
    LET mine == { allChildren(n)[i].node : i \in DOMAIN allChildren(n) }
        isMine(x) == x \in mine
    IN  joinSeq(W, SelectSeq(W.doneOrder, isMine))

\* (await Promise.all(allChildren)).join("\n")
joinChildren(W, n) ==
    joinSeq(W, [ i \in DOMAIN allChildren(n) |-> allChildren(n)[i].node ])

(***************************************************************************)
(* convertPage and what follows it in convert and run.                     *)
(***************************************************************************)
ConversionResult(W) ==
    [ pathToHtml |-> W.pathToHtml, hasMobileVersion |-> W.hasMobileVersion,
      images |-> W.images, fonts |-> W.fonts, frameIdToPath |-> W.frameIdToPath,
      startFrameId |-> W.startFrame, actions |-> W.actions, favicon |-> W.favicon ]

\* figma.ui.postMessage({ type: "conversion-result", content: result })
postResult(W) ==
    [ W EXCEPT !.runPc = "posted",
               !.posted = Append(@, [ type |-> "conversion-result",
                                      content |-> ConversionResult(W) ]) ]

\* A plausible slip: the catch block reporting to the UI as the try block does.
onConversionFailedPosting(W) ==
    [ W EXCEPT !.runPc = "failed",
               !.posted = Append(@, [ type |-> "conversion-result",
                                      content |-> ConversionResult(W) ]) ]

\* catch(e) { console.error("Conversion failed", e) }
onConversionFailed(W) == [ W EXCEPT !.runPc = "failed" ]

\* The loop of convertPage from child i up to its next await; when the loop
\* ends convertPage and convert return and run posts the result.
RECURSIVE convertPageFrom(_, _)
convertPageFrom(W, i) ==
    IF i > Len(doc.top) THEN postResult([ W EXCEPT !.pageIdx = i ])
    ELSE LET child == doc.top[i]
         IN  IF child \notin DOMAIN W.frameIdToPath THEN convertPageFrom(W, i + 1)
             ELSE IF Type(child) \notin ConvertibleTypes THEN convertPageFrom(W, i + 1)
             ELSE LET W1 == [ W EXCEPT !.pageIdx = i,
                                       !.frameLocals = [ path |-> W.frameIdToPath[child],
                                                         cls |-> "" ] ]
                  IN  IF doc.node[child].name = NmFavicon
                      THEN At(W1, child, "favicon")
                      \* convertTopLevelFrame up to its await of the background style
                      ELSE At(W1, child, "fill")

\* convert, from its first line to its first await or its throw.
convertStart(W) ==
    LET rt == BuildRoutingTable
        W1 == [ W EXCEPT !.images = <<>>, !.fonts = {}, !.actions = <<>>,
                         !.frameIdToPath = rt.frameIdToPath,
                         !.frameIdToSize = rt.frameIdToSize,
                         !.hasMobileVersion = rt.hasMobileVersion,
                         !.startFrame = FindStartFrame ]
    IN  IF W1.startFrame = NoNode
        THEN onConversionFailed(W1)   \* "No start frame found!"
        ELSE convertPageFrom([ W1 EXCEPT !.runPc = "converting" ], 1)

(***************************************************************************)
(* The continuations after each await.                                     *)
(***************************************************************************)
afterStroke(W, n) ==
    LET r == getStrokeStyleForPaints(doc.node[n].strokes)
    IN  IF r.kind = "throws" THEN At(W, n, "rejected")
        ELSE At(IF r.kind = "image" THEN registerImage(W, r.hash) ELSE W, n, "fill")

\* `<div class="${frameIdToSize[node.id]}" ...`: evaluated before the await of
\* convertChildren in the same template; a missing entry reads as undefined.
frameClass(W, n) ==
    IF n \in DOMAIN W.frameIdToSize THEN W.frameIdToSize[n] ELSE "undefined"

topLevelMarkup(W, n, content) ==
    <<Tok("open", n, W.ev[n], W.frameLocals.cls)>> \o content
        \o <<Tok("close", n, <<>>, "")>>

afterFill(W, n) ==
    LET r == getBackgroundStyleForPaints(doc.node[n].fills)
        W1 == IF r.kind = "image" THEN registerImage(W, r.hash) ELSE W
    IN  IF r.kind = "throws" THEN At(W, n, "rejected")
        ELSE IF n \in TopSet
        THEN LET W2 == [ eventHandlingAttributes(W1, n) EXCEPT
                           !.frameLocals.cls = frameClass(W1, n) ]
             IN  convertChildrenStart(W2, n)
        ELSE IF Type(n) = "RECTANGLE"
        THEN LET W2 == eventHandlingAttributes(W1, n)
             IN  Resolve(W2, n, h(n, W2.ev[n], <<>>))
        ELSE At(W1, n, "timer")

afterChildren(W, n) ==
    IF n \in TopSet
    THEN LET path == W.frameLocals.path
             markup == topLevelMarkup(W, n, joinChildren(W, n))
             W1 == Resolve(W, n, markup)
             W2 == [ W1 EXCEPT !.pathToHtml =
                        IF path \in DOMAIN @ THEN Put(@, path, @[path] \o markup)
                        ELSE Put(@, path, markup) ]
         IN  convertPageFrom(W2, W.pageIdx + 1)
    ELSE IF Type(n) = "GROUP"
    THEN Resolve(W, n,
            <<Tok("open", n, <<>>,
                  IF doc.node[ParentOf(n)].layoutMode = "VERTICAL" THEN "column" ELSE "row")>>
            \o joinChildren(W, n) \o <<Tok("close", n, <<>>, "")>>)
    ELSE LET W1 == eventHandlingAttributes(W, n)
         IN  Resolve(W1, n, h(n, W1.ev[n], joinChildren(W, n)))

\* node.exportAsync({ format }) of convertShape has resolved (ok) or rejected.
Exported(W, n, format, ok) ==
    [ W EXCEPT !.shapeExports =
        [ @ EXCEPT ![n] = Append(@, [ format |-> format, ok |-> ok ]) ] ]

afterSvg(W, n) ==
    Resolve(Exported(W, n, "SVG", TRUE), n, h(n, W.ev[n], <<Tok("svg", n, <<>>, "")>>))

\* catch (e) { console.error("Failed to convert shape to SVG, trying PNG") }
onSvgFailed(W, n) == At(Exported(W, n, "SVG", FALSE), n, "png")

afterPng(W, n, bytes) ==
    LET key == ProvisionalKey(W.nextKey)
        W1 == [ Exported(W, n, "PNG", TRUE) EXCEPT
                  !.images = Put(@, key, [ bytes |-> bytes, path |-> key ]),
                  !.nextKey = @ + 1 ]
    IN  Resolve(W1, n, h(n, W.ev[n], <<Tok("placeholder", n, <<>>, "")>>))

\* A plausible slip: the failure of the PNG export left uncaught.
onPngFailedUncaught(W, n) == At(Exported(W, n, "PNG", FALSE), n, "rejected")

\* catch (e) { console.error("Failed to convert shape to PNG"); return "" }
onPngFailed(W, n) == Resolve(Exported(W, n, "PNG", FALSE), n, <<>>)

fetching(n) ==
    \/ pc[n] = "stroke" /\ getStrokeStyleForPaints(doc.node[n].strokes).kind = "image"
    \/ pc[n] = "fill" /\ getBackgroundStyleForPaints(doc.node[n].fills).kind = "image"

(***************************************************************************)
(* Actions.                                                                *)
(***************************************************************************)
\* The UI's "run" message: run() calls convert(figma.currentPage).
Run ==
    /\ runPc = "idle"
    /\ Commit(convertStart(Cur))
    /\ UNCHANGED << doc, parked, pureVars, uiVars >>

\* getStrokeStyleForPaints resolves (with the image bytes, if it fetched any).
StrokeResolved(n) ==
    /\ pc[n] = "stroke"
    /\ Commit(afterStroke(Cur, n))
    /\ UNCHANGED << doc, parked, pureVars, uiVars >>

\* getBackgroundStyleForPaints resolves.
FillResolved(n) ==
    /\ pc[n] = "fill"
    /\ Commit(afterFill(Cur, n))
    /\ UNCHANGED << doc, parked, pureVars, uiVars >>

\* img.getBytesAsync() rejects; nothing catches it on the way up.
FetchFailed(n) ==
    /\ fetching(n)
    /\ Commit(At(Cur, n, "rejected"))
    /\ UNCHANGED << doc, parked, pureVars, uiVars >>

\* The setTimeout of convertFrame fires.
TimerFired(n) ==
    /\ pc[n] = "timer"
    /\ Commit(convertChildrenStart(Cur, n))
    /\ UNCHANGED << doc, parked, pureVars, uiVars >>

\* Promise.all of the children resolves.
ChildrenJoined(n) ==
    /\ pc[n] = "children"
    /\ allDone(Cur, n)
    /\ Commit(afterChildren(Cur, n))
    /\ UNCHANGED << doc, parked, pureVars, uiVars >>

\* exportAsync({ format: 'SVG' }) resolves.
SvgExported(n) ==
    /\ pc[n] = "svg"
    /\ Commit(afterSvg(Cur, n))
    /\ UNCHANGED << doc, parked, pureVars, uiVars >>

\* exportAsync({ format: 'SVG' }) rejects: caught, PNG is tried.
SvgFailed(n) ==
    /\ pc[n] = "svg"
    /\ Commit(onSvgFailed(Cur, n))
    /\ UNCHANGED << doc, parked, pureVars, uiVars >>

\* exportAsync({ format: 'PNG' }) resolves with some bytes.
PngExported(n) ==
    /\ pc[n] = "png"
    /\ \E bytes \in 1..MaxHash : Commit(afterPng(Cur, n, bytes))
    /\ UNCHANGED << doc, parked, pureVars, uiVars >>

\* exportAsync({ format: 'PNG' }) rejects: caught, the node converts to "".
PngFailed(n) ==
    /\ pc[n] = "png"
    /\ Commit(onPngFailed(Cur, n))
    /\ UNCHANGED << doc, parked, pureVars, uiVars >>

\* The favicon frame's export resolves; convertPage goes on.
FaviconExported(n) ==
    /\ pc[n] = "favicon"
    /\ \E bytes \in 1..MaxHash :
          Commit(convertPageFrom([ Resolve(Cur, n, <<>>) EXCEPT !.favicon = bytes ],
                                 pageIdx + 1))
    /\ UNCHANGED << doc, parked, pureVars, uiVars >>

\* The favicon frame's export rejects; nothing catches it in convertPage.
FaviconFailed(n) ==
    /\ pc[n] = "favicon"
    /\ Commit(At(Cur, n, "rejected"))
    /\ UNCHANGED << doc, parked, pureVars, uiVars >>

\* A rejection reaches run's catch block through the awaits above it.
ConversionRejected ==
    /\ runPc = "converting"
    /\ \E n \in Nodes : pc[n] = "rejected"
    /\ Commit(onConversionFailed(Cur))
    /\ UNCHANGED << doc, parked, pureVars, uiVars >>

(***************************************************************************)
(* The UI: deploySite and compileForNetlify.                               *)
(***************************************************************************)
NotCompiled == [ handled |-> 0, files |-> <<>>, blobs |-> <<>> ]

\* App before the user deploys: nothing in progress, nothing deployed, and
\* the site selector on "Create new site".
UiIdle == [ step |-> "ready", siteId |-> "new", deploying |-> FALSE, deployed |-> FALSE ]

\* sha1(x): a digest names the content it was computed from, and never
\* starts with "_".
sha1(content) == [ provisional |-> FALSE, sha1of |-> content ]

\* Buffer.from(img.bytes)
BufferFrom(bytes) == [ buffer |-> bytes ]

\* The keys of site.files. A page's path ends in ".html"; an image's path is
\* "/images/<key>.png" or "/images/_<random>": the two never coincide.
PageFile(path) == [ page |-> path ]
ImageFile(path) == [ image |-> path ]

\* The document compileForNetlify writes for one path.
pageContent(data, path) ==
    [ title |-> path,
      mobile |-> path \in DOMAIN data.hasMobileVersion /\ data.hasMobileVersion[path],
      fonts |-> data.fonts,
      runtime |-> [ frameIdToPath |-> data.frameIdToPath, actions |-> data.actions ],
      body |-> data.pathToHtml[path] ]

\* A plausible slip: the key of the asset table used as it stands.
rehashNever(data, imageHash) == imageHash

\* if (imageHash[0] === '_') imageHash = sha1(Buffer.from(img.bytes))
rehash(data, imageHash) ==
    IF imageHash.provisional THEN sha1(BufferFrom(data.images[imageHash].bytes))
    ELSE imageHash

\* for (let path in data.pathToHtml) { ... }
RECURSIVE packPages(_, _, _)
packPages(site, data, paths) ==
    IF paths = {} THEN site
    ELSE LET path == CHOOSE p \in paths : TRUE
             content == pageContent(data, path)
             hash == sha1(content)
         IN  packPages([ site EXCEPT !.files = Put(@, PageFile(path), hash),
                                     !.blobs = Put(@, hash, content) ],
                       data, paths \ { path })

\* for (let imageHash in data.images) { ... }
RECURSIVE packImages(_, _, _)
packImages(site, data, keys) ==
    IF keys = {} THEN site
    ELSE LET key == CHOOSE k \in keys : TRUE
             img == data.images[key]
             imageHash == rehash(data, key)
         IN  packImages([ site EXCEPT !.files = Put(@, ImageFile(img.path), imageHash),
                                      !.blobs = Put(@, imageHash, img.bytes) ],
                        data, keys \ { key })

compileForNetlify(data) ==
    packImages(packPages([ files |-> <<>>, blobs |-> <<>> ], data, DOMAIN data.pathToHtml),
               data, DOMAIN data.images)

\* The UI's message handler: every "conversion-result" message is compiled.
DeploySite ==
    /\ compiled.handled < Len(posted)
    /\ LET msg == posted[compiled.handled + 1]
           site == compileForNetlify(msg.content)
       IN  compiled' = [ handled |-> compiled.handled + 1,
                         files |-> site.files, blobs |-> site.blobs ]
    /\ UNCHANGED << doc, convVars, parked, pureVars, ui >>

(***************************************************************************)
(* The plugin: one conversion of one page.                                 *)
(***************************************************************************)
PathIdle == [ step |-> "off", name |-> <<>>, once |-> <<>>, twice |-> <<>> ]
TextIdle == [ step |-> "off", chars |-> <<>>, spans |-> <<>> ]
LayoutIdle == [ step |-> "off" ]
PaintIdle == [ step |-> "off" ]

ConvInit ==
    /\ runPc = "idle"
    /\ posted = <<>>
    /\ images = <<>>
    /\ fonts = {}
    /\ frameIdToPath = <<>>
    /\ frameIdToSize = <<>>
    /\ hasMobileVersion = <<>>
    /\ actions = <<>>
    /\ startFrame = NoNode
    /\ pathToHtml = <<>>
    /\ favicon = NoBytes
    /\ pageIdx = 0
    /\ pc = [ n \in DOMAIN doc.node |-> "idle" ]
    /\ result = [ n \in DOMAIN doc.node |-> <<>> ]
    /\ ev = [ n \in DOMAIN doc.node |-> <<>> ]
    /\ doneOrder = <<>>
    /\ nextKey = 1
    /\ shapeExports = [ n \in DOMAIN doc.node |-> <<>> ]
    /\ frameLocals = NoFrameLocals

RouteInit ==
    \E k \in 1..MaxTop :
        \E nm \in [ 1..k -> TopNames ], w \in [ 1..k -> 1..MaxWidth ] :
            doc = RouteDoc(k, nm, w)

EntryInit ==
    \E k \in 0..MaxEntryTop :
        \E ty \in [ 1..k -> { "FRAME", "RECTANGLE" } ],
           xs \in [ 1..k -> 0..MaxCoord ], ys \in [ 1..k -> 0..MaxCoord ],
           st \in { b \in BOOLEAN : b => k > 0 },
           fav \in { b \in BOOLEAN : b => k > 0 } :
            doc = EntryDoc(k, ty, xs, ys, st, fav)

TreeInit ==
    \E c \in TreeContainers, l3 \in LeafKinds({1}), l4 \in LeafKinds(1..MaxHash) \cup { NullImageLeaf },
       hidden \in 0..4, rx \in ReactionChoices :
        doc = TreeDoc(c, l3, l4, hidden, rx)

DeepInit ==
    \E c2 \in { "GROUP", "FRAME" }, c3 \in { "GROUP", "FRAME" },
       rx \in DeepReactionChoices, auto \in 0..2 :
        /\ auto = 2 => c2 = "FRAME"
        /\ doc = DeepDoc(c2, c3, rx, auto)

Init ==
    /\ RouteInit \/ EntryInit \/ TreeInit \/ DeepInit
    /\ ConvInit
    /\ parked = <<>>
    /\ pathRun = PathIdle
    /\ textRun = TextIdle
    /\ layoutRun = LayoutIdle
    /\ paintRun = PaintIdle
    /\ compiled = NotCompiled
    /\ ui = UiIdle

Next ==
    \/ Run
    \/ \E n \in Nodes : StrokeResolved(n)
    \/ \E n \in Nodes : FillResolved(n)
    \/ \E n \in Nodes : FetchFailed(n)
    \/ \E n \in Nodes : TimerFired(n)
    \/ \E n \in Nodes : ChildrenJoined(n)
    \/ \E n \in Nodes : SvgExported(n)
    \/ \E n \in Nodes : SvgFailed(n)
    \/ \E n \in Nodes : PngExported(n)
    \/ \E n \in Nodes : PngFailed(n)
    \/ \E n \in Nodes : FaviconExported(n)
    \/ \E n \in Nodes : FaviconFailed(n)
    \/ ConversionRejected
    \/ DeploySite

Spec == Init /\ [][Next]_vars

(***************************************************************************)
(* nameToPath on its own: a name is normalized, and the path it yields is  *)
(* normalized again.                                                       *)
(***************************************************************************)
PathAlphabet == { "H", "o", " ", "-", ".", "/", "_" }
PathSuffixes == { <<>>, DotHtml, <<".","H","T","M","L">> }
PathInputs ==
    { stem \o suffix :
        stem \in UNION { [ 1..m -> PathAlphabet ] : m \in 0..MaxNameLen },
        suffix \in PathSuffixes }

EmptyDoc == [ top |-> <<>>, kids |-> <<>>, start |-> NoNode, node |-> <<>> ]

PathInit ==
    /\ doc = EmptyDoc
    /\ ConvInit
    /\ parked = <<>>
    /\ \E name \in PathInputs :
          pathRun = [ step |-> "named", name |-> name, once |-> <<>>, twice |-> <<>> ]
    /\ textRun = TextIdle
    /\ layoutRun = LayoutIdle
    /\ paintRun = PaintIdle
    /\ compiled = NotCompiled
    /\ ui = UiIdle

Normalize ==
    /\ pathRun.step = "named"
    /\ pathRun' = [ pathRun EXCEPT !.step = "once", !.once = nameToPath(pathRun.name) ]
    /\ UNCHANGED << doc, convVars, parked, textRun, layoutRun, paintRun, uiVars >>

NormalizeAgain ==
    /\ pathRun.step = "once"
    /\ pathRun' = [ pathRun EXCEPT !.step = "twice", !.twice = nameToPath(pathRun.once) ]
    /\ UNCHANGED << doc, convVars, parked, textRun, layoutRun, paintRun, uiVars >>

PathNext == Normalize \/ NormalizeAgain

PathSpec == PathInit /\ [][PathNext]_vars

(***************************************************************************)
(* Vocabulary of the properties.                                           *)
(***************************************************************************)
Routed == runPc # "idle"
Finished == runPc = "posted"

Convertible(n) == Type(n) \in ConvertibleTypes
ConvertibleTop == { n \in TopSet : Convertible(n) }
PathOf(n) == nameToPath(doc.node[n].name)

RECURSIVE Preorder(_)
RECURSIVE PreorderAll(_)
Preorder(n) == <<n>> \o PreorderAll(doc.kids[n])
PreorderAll(ns) == IF ns = <<>> THEN <<>> ELSE Preorder(Head(ns)) \o PreorderAll(Tail(ns))

\* The position of node n in the left-to-right, depth-first enumeration of
\* the page, parents before children.
Rank(n) == CHOOSE i \in DOMAIN PreorderAll(doc.top) : PreorderAll(doc.top)[i] = n

RECURSIVE InHiddenSubtree(_)
InHiddenSubtree(n) ==
    \/ ~doc.node[n].visible
    \/ (ParentOf(n) # NoNode /\ InHiddenSubtree(ParentOf(n)))

Emitted(n) ==
    \E m \in Nodes : \E i \in DOMAIN result[m] : result[m][i].id = n

PaintHashes(n) ==
    { doc.node[n].fills[i].hash : i \in DOMAIN doc.node[n].fills }
    \cup { doc.node[n].strokes[i].hash : i \in DOMAIN doc.node[n].strokes }

\* The nodes whose markup came out of convertChildren.
JoinedNodes ==
    { n \in Nodes : /\ pc[n] = "done"
                    /\ result[n] # <<>>
                    /\ Type(n) \in ContainerTypes
                    /\ (n \in TopSet \/ ~isVectorSubtree(n)) }

\* The children of n in document order, a Group that was not converted as a
\* unit giving way to its own children (to nothing when hidden).
RECURSIVE InDocumentOrder(_)
InDocumentOrder(ns) ==
    IF ns = <<>> THEN <<>>
    ELSE LET c == Head(ns)
         IN  (IF Type(c) = "GROUP" /\ pc[c] = "idle"
              THEN (IF doc.node[c].visible THEN InDocumentOrder(doc.kids[c]) ELSE <<>>)
              ELSE <<c>>)
             \o InDocumentOrder(Tail(ns))

Content(markup) == SubSeq(markup, 2, Len(markup) - 1)

OpenIds(markup) ==
    LET isOpen(t) == t.k = "open"
        opens == SelectSeq(markup, isOpen)
    IN  [ i \in DOMAIN opens |-> opens[i].id ]

Before(order, a, b) ==
    \E i, j \in DOMAIN order : i < j /\ order[i] = a /\ order[j] = b

(***************************************************************************)
(* C1.  The markup convertChildren produces for a parent is the join of    *)
(* its children's markup in document order (the children of a flattened    *)
(* Group in the Group's place), whatever the order in which the            *)
(* asynchronous conversions of the children completed.                     *)
(***************************************************************************)
C1_ChildrenJoinedInDocumentOrder ==
    \A n \in JoinedNodes :
        /\ Content(result[n]) = joinSeq(Cur, InDocumentOrder(doc.kids[n]))
        /\ \A i, j \in DOMAIN OpenIds(result[n]) :
              i < j => Rank(OpenIds(result[n])[i]) < Rank(OpenIds(result[n])[j])

\* Two children with markup, of which the later one completed first.
C1_Witness ==
    \E n \in JoinedNodes :
        \E i, j \in DOMAIN InDocumentOrder(doc.kids[n]) :
            LET a == InDocumentOrder(doc.kids[n])[i]
                b == InDocumentOrder(doc.kids[n])[j]
            IN  /\ i < j
                /\ result[a] # <<>> /\ result[b] # <<>>
                /\ Before(doneOrder, b, a)
                /\ ParentOf(a) # ParentOf(b)

(***************************************************************************)
(* C2.  A node with visible = false, top-level frames included, and every  *)
(* node below it get no markup and no action, font, asset or routing       *)
(* entry.                                                                  *)
(***************************************************************************)
C2_HiddenNodesContributeNothing ==
    \A n \in Nodes :
        InHiddenSubtree(n) =>
            /\ ~Emitted(n)
            /\ n \notin DOMAIN frameIdToPath
            /\ \A i \in DOMAIN actions : actions[i].node # n
            /\ doc.node[n].font # 0 => doc.node[n].font \notin fonts
            /\ \A hash \in PaintHashes(n) \ {0} :
                  (\A m \in Nodes : hash \in PaintHashes(m) => InHiddenSubtree(m))
                      => HashKey(hash) \notin DOMAIN images

(***************************************************************************)
(* C3.  As claimed: when a conversion ends, no two entries of the asset    *)
(* table hold identical bytes, image paints and raster exports alike.      *)
(***************************************************************************)
C3_IdenticalBytesStoredOnce ==
    Finished =>
        \A k1, k2 \in DOMAIN images : images[k1].bytes = images[k2].bytes => k1 = k2

RasterExported(n) ==
    /\ pc[n] = "done"
    /\ \E i \in DOMAIN result[n] : result[n][i] = Tok("placeholder", n, <<>>, "")

\* C3 as amended: when a conversion ends, the entries filed under a content
\* hash hold pairwise different bytes (one entry per image content, however
\* many paints use it), and the entries filed under a provisional key are one
\* per successful raster export, whatever their bytes.
C3_HashedAssetsStoredOnce ==
    Finished =>
        /\ \A k1, k2 \in DOMAIN images :
              (~k1.provisional /\ ~k2.provisional /\ images[k1].bytes = images[k2].bytes)
                  => k1 = k2
        /\ Cardinality({ k \in DOMAIN images : k.provisional })
              = Cardinality({ n \in Nodes : RasterExported(n) })

\* Two converted rectangles filled with the same image, one entry for it.
C3_Witness ==
    /\ Finished
    /\ \E a, b \in Nodes :
          /\ a # b
          /\ Type(a) = "RECTANGLE" /\ Type(b) = "RECTANGLE"
          /\ Emitted(a) /\ Emitted(b)
          /\ doc.node[a].fills = <<ImagePaint(1)>> /\ doc.node[b].fills = <<ImagePaint(1)>>
    /\ DOMAIN images = { HashKey(1) }

(***************************************************************************)
(* C4.  The actions are listed in the order of the depth-first,            *)
(* left-to-right enumeration of the tree, a parent's reactions before      *)
(* those of its children, under every completion order.                    *)
(***************************************************************************)
C4_ActionIndexIsPreorderRank ==
    Finished =>
        \A i, j \in DOMAIN actions :
            i < j =>
                \/ Rank(actions[i].node) < Rank(actions[j].node)
                \/ /\ actions[i].node = actions[j].node
                   /\ actions[i].reaction < actions[j].reaction

Flagged(path, size) ==
    { n \in DOMAIN frameIdToSize : PathOf(n) = path /\ frameIdToSize[n] = size }

C6_OneDesktopOneMobilePerPath ==
    Routed =>
        \A n \in ConvertibleTop :
            /\ Cardinality(Flagged(PathOf(n), "desktop")) <= 1
            /\ Cardinality(Flagged(PathOf(n), "mobile")) <= 1

(***************************************************************************)
(* C7.  A page of exactly two top-level frames whose names normalize to    *)
(* the same path and whose widths differ: in either order, the routing     *)
(* table has that one path, with hasMobileVersion true, both frames map to *)
(* it, the narrower is flagged mobile and the wider desktop.               *)
(***************************************************************************)
TwoFramesOnePath(a, b) ==
    /\ Len(doc.top) = 2
    /\ ConvertibleTop = { a, b }
    /\ a # b
    /\ PathOf(a) = PathOf(b)
    /\ doc.node[a].width < doc.node[b].width

C7_NarrowerOfTwoIsMobile ==
    Routed =>
        \A a, b \in TopSet :
            TwoFramesOnePath(a, b) =>
                /\ DOMAIN hasMobileVersion = { PathOf(a) }
                /\ hasMobileVersion[PathOf(a)] = TRUE
                /\ DOMAIN frameIdToPath = { a, b }
                /\ frameIdToPath[a] = PathOf(a)
                /\ frameIdToPath[b] = PathOf(a)
                /\ frameIdToSize[a] = "mobile"
                /\ frameIdToSize[b] = "desktop"

\* The narrower frame comes first, under a name that differs from the wider
\* one's before normalization.
C7_Witness ==
    /\ Routed
    /\ TwoFramesOnePath(1, 2)
    /\ doc.node[1].name # doc.node[2].name
    /\ frameIdToSize = <<"mobile", "desktop">>

(***************************************************************************)
(* C8.  Once a path has a mobile variant, a further top-level node of that *)
(* path is dropped: no routing entry, no markup, and the flags given       *)
(* before it stay as they were.                                            *)
(***************************************************************************)
RECURSIVE RoutedPrefix(_)
RoutedPrefix(j) ==
    IF j = 0 THEN EmptyRouting ELSE RouteChild(RoutedPrefix(j - 1), doc.top[j])

C8_CollisionsAfterMobileDropped ==
    Routed =>
        \A j \in DOMAIN doc.top :
            LET child == doc.top[j]
                before == RoutedPrefix(j - 1)
            IN  (Convertible(child) /\ PathOf(child) \in DOMAIN before.hasMobileVersion)
                    => /\ child \notin DOMAIN frameIdToPath
                       /\ ~Emitted(child)
                       /\ \A m \in DOMAIN before.frameIdToSize :
                             PathOf(m) = PathOf(child)
                                 => frameIdToSize[m] = before.frameIdToSize[m]

(***************************************************************************)
(* C9.  The entry node of the result is the prototype start node when      *)
(* there is one, and otherwise a convertible top-level node than which no  *)
(* other has a smaller y, or the same y and a smaller x.                   *)
(***************************************************************************)
TopLeft(s) ==
    /\ s \in ConvertibleTop
    /\ \A c \in ConvertibleTop :
          \/ doc.node[s].y < doc.node[c].y
          \/ (doc.node[s].y = doc.node[c].y /\ doc.node[s].x <= doc.node[c].x)

C9_EntryNode ==
    Finished =>
        LET entry == posted[Len(posted)].content.startFrameId
        IN  IF doc.start # NoNode THEN entry = doc.start ELSE TopLeft(entry)

\* No start node, two frames, and the second one is the entry: it is higher
\* up although further right.
C9_Witness ==
    /\ Finished
    /\ doc.start = NoNode
    /\ ConvertibleTop = { 1, 2 }
    /\ doc.node[2].y < doc.node[1].y
    /\ doc.node[2].x > doc.node[1].x
    /\ posted[1].content.startFrameId = 2

(***************************************************************************)
(* C10.  A page without convertible top-level node and without start node: *)
(* convert throws before any node is converted, and the plugin posts no    *)
(* conversion result.                                                      *)
(***************************************************************************)
NoEntryPoint == doc.start = NoNode /\ ConvertibleTop = {}

C10_NoStartFrameFails ==
    (Routed /\ NoEntryPoint) =>
        /\ runPc = "failed"
        /\ posted = <<>>
        /\ \A n \in Nodes : pc[n] = "idle" /\ result[n] = <<>>
        /\ pathToHtml = <<>>
        /\ actions = <<>>
        /\ images = <<>>

\* The page is not empty: it holds nodes, none of them convertible.
C10_Witness ==
    /\ runPc = "failed"
    /\ NoEntryPoint
    /\ Len(doc.top) = 2

(***************************************************************************)
(* C11.  A failing retrieval of an image paint's bytes does not make the   *)
(* conversion fail: the call still completes.                              *)
(***************************************************************************)
\* The call converting n was left by a rejected img.getBytesAsync().
FetchRejected(n) ==
    /\ pc[n] = "rejected"
    /\ \/ getStrokeStyleForPaints(doc.node[n].strokes).kind = "image"
       \/ getBackgroundStyleForPaints(doc.node[n].fills).kind = "image"

C11_FetchFailureRecovered ==
    (\E n \in Nodes : FetchRejected(n)) => runPc # "failed"

(***************************************************************************)
(* C12.  When every export convertShape tried on a node has failed, the    *)
(* node converts to empty markup and registers no asset, and the           *)
(* conversion goes on: the siblings and ancestors are converted, and       *)
(* nothing but another node's rejection makes the call fail.               *)
(***************************************************************************)
ExportFailed(n, format) ==
    \E i \in DOMAIN shapeExports[n] :
        shapeExports[n][i] = [ format |-> format, ok |-> FALSE ]

ExportSucceeded(n, format) ==
    \E i \in DOMAIN shapeExports[n] :
        shapeExports[n][i] = [ format |-> format, ok |-> TRUE ]

\* Node m has an element in the markup of some page of the result.
InPage(m) ==
    \E path \in DOMAIN pathToHtml :
        \E i \in DOMAIN pathToHtml[path] : pathToHtml[path][i].id = m

ProvisionalAssets == { k \in DOMAIN images : k.provisional }

C12_FailedExportsYieldNothing ==
    \A n \in Nodes :
        ExportFailed(n, "PNG") =>
            /\ pc[n] = "done"
            /\ result[n] = <<>>
            /\ ~Emitted(n)
            /\ Cardinality(ProvisionalAssets)
                  = Cardinality({ m \in Nodes : ExportSucceeded(m, "PNG") })
            /\ runPc = "failed" => \E m \in Nodes : pc[m] = "rejected"
            /\ Finished =>
                  \A m \in Nodes \ {n} :
                      (pc[m] = "done" /\ result[m] # <<>>) => InPage(m)

\* Both exports of node 3 failed, and the conversion ended with the markup of
\* its sibling 4 and of its ancestor 1 in the page.
C12_Witness ==
    /\ Finished
    /\ Nodes = 1..4
    /\ shapeExports[3] = << [ format |-> "SVG", ok |-> FALSE ],
                            [ format |-> "PNG", ok |-> FALSE ] >>
    /\ InPage(4) /\ InPage(1) /\ ~InPage(3)

(***************************************************************************)
(* Two calls of convert.  main runs run() on every "run" message, whether  *)
(* or not an earlier call has returned; convert reads figma.currentPage    *)
(* when it is called.  The first call converts a page of one frame (node   *)
(* 1), the second one another page of one frame (node 2).                  *)
(***************************************************************************)
CallFills == { <<SolidPaint>> } \cup { <<ImagePaint(hash)>> : hash \in 1..MaxHash }

CallDoc(id, nm, fills, rx) ==
    [ top |-> <<id>>, kids |-> (id :> <<>>), start |-> NoNode,
      node |-> (id :> [ DefaultNode EXCEPT !.name = nm, !.fills = fills,
                                           !.reactions = rx ]) ]

CallDocs(id) ==
    { CallDoc(id, nm, fills, rx) :
        nm \in { NmHome, NmAbout }, fills \in CallFills, rx \in { <<>>, <<"ON_CLICK">> } }

\* What is local to one call of run and convert: its page, its position, its
\* startFrame, the retval of its convertPage, its pending promises.
Locals ==
    [ doc |-> doc, runPc |-> runPc, startFrame |-> startFrame,
      pathToHtml |-> pathToHtml, favicon |-> favicon, pageIdx |-> pageIdx,
      pc |-> pc, result |-> result, ev |-> ev, doneOrder |-> doneOrder,
      shapeExports |-> shapeExports, frameLocals |-> frameLocals ]

SetLocals(L) ==
    /\ doc' = L.doc
    /\ runPc' = L.runPc
    /\ startFrame' = L.startFrame
    /\ pathToHtml' = L.pathToHtml
    /\ favicon' = L.favicon
    /\ pageIdx' = L.pageIdx
    /\ pc' = L.pc
    /\ result' = L.result
    /\ ev' = L.ev
    /\ doneOrder' = L.doneOrder
    /\ shapeExports' = L.shapeExports
    /\ frameLocals' = L.frameLocals

FreshLocals(page) ==
    [ doc |-> page, runPc |-> "idle", startFrame |-> NoNode, pathToHtml |-> <<>>,
      favicon |-> NoBytes, pageIdx |-> 0,
      pc |-> [ n \in DOMAIN page.node |-> "idle" ],
      result |-> [ n \in DOMAIN page.node |-> <<>> ],
      ev |-> [ n \in DOMAIN page.node |-> <<>> ],
      doneOrder |-> <<>>,
      shapeExports |-> [ n \in DOMAIN page.node |-> <<>> ],
      frameLocals |-> NoFrameLocals ]

\* What all calls share: the module-level tables of convert.ts, the source of
\* the random keys and the messages the UI has received.
sharedVars ==
    << posted, images, fonts, frameIdToPath, frameIdToSize, hasMobileVersion,
       actions, nextKey >>

\* Another message or another call's continuation is handled only when the
\* call in hand has returned or waits for the bytes of an image; the awaits
\* that resolve without leaving the plugin run on before anything else does.
Suspended ==
    \/ runPc \in { "posted", "failed" }
    \/ runPc = "converting" /\ \E n \in Nodes : fetching(n)

\* The user opens another page after the first "run": the first call,
\* suspended or returned, keeps the page it was given, and the next "run"
\* message will convert the new figma.currentPage.
PageSwitched ==
    /\ Suspended
    /\ parked = <<>>
    /\ parked' = <<Locals>>
    /\ \E page \in CallDocs(2) : SetLocals(FreshLocals(page))
    /\ UNCHANGED << sharedVars, pureVars, uiVars >>

\* The event loop turns from the continuations of one call to those of the
\* other.
Turn ==
    /\ parked # <<>>
    /\ Suspended
    /\ parked' = <<Locals>>
    /\ SetLocals(parked[1])
    /\ UNCHANGED << sharedVars, pureVars, uiVars >>

TwoCallInit ==
    /\ doc \in CallDocs(1)
    /\ ConvInit
    /\ parked = <<>>
    /\ pathRun = PathIdle
    /\ textRun = TextIdle
    /\ layoutRun = LayoutIdle
    /\ paintRun = PaintIdle
    /\ compiled = NotCompiled
    /\ ui = UiIdle

TwoCallNext ==
    \/ Run
    \/ \E n \in Nodes : FillResolved(n)
    \/ \E n \in Nodes : FetchFailed(n)
    \/ \E n \in Nodes : ChildrenJoined(n)
    \/ ConversionRejected
    \/ PageSwitched
    \/ Turn

TwoCallSpec == TwoCallInit /\ [][TwoCallNext]_vars

(***************************************************************************)
(* C13.  The result a call of convert returns holds, in its side tables,   *)
(* only entries made from the page that call was given: routing entries    *)
(* and actions of its own nodes, mobile flags of its own paths, assets of  *)
(* its own paints.                                                         *)
(***************************************************************************)
OwnEntriesOnly(r) ==
    /\ DOMAIN r.frameIdToPath \subseteq Nodes
    /\ \A i \in DOMAIN r.actions : r.actions[i].node \in Nodes
    /\ DOMAIN r.hasMobileVersion \subseteq { PathOf(n) : n \in Nodes }
    /\ \A k \in DOMAIN r.images :
          ~k.provisional => \E n \in Nodes : k.id \in PaintHashes(n)
    /\ r.fonts \subseteq { doc.node[n].font : n \in Nodes }

\* C13: the message, if any, that carries the result of the call in hand
\* holds only entries made from that call's page.
C13_ResultHoldsOwnEntriesOnly ==
    \A i \in DOMAIN posted :
        posted[i].content.startFrameId \in Nodes => OwnEntriesOnly(posted[i].content)

(***************************************************************************)
(* C14.  As claimed: in a container subtree made of shapes and containers  *)
(* of shapes in which some member carries a reaction, neither the root nor *)
(* any container below it is collapsed into one export: every member is    *)
(* converted by a call of its own.                                         *)
(***************************************************************************)
RECURSIVE Descendants(_)
Descendants(n) ==
    Range(doc.kids[n]) \cup UNION { Descendants(c) : c \in Range(doc.kids[n]) }

Ancestors(n) == { a \in Nodes : n \in Descendants(a) }

\* Every member below n is a shape or a container of shapes, and all are visible.
ShapesBelow(n) ==
    /\ Type(n) \in ContainerTypes
    /\ doc.kids[n] # <<>>
    /\ \A m \in Descendants(n) :
          /\ Type(m) \in ShapeTypes \cup ContainerTypes
          /\ doc.node[m].visible
          /\ Type(m) \in ContainerTypes => doc.kids[m] # <<>>

ReactionBelow(n) == \E m \in Descendants(n) : doc.node[m].reactions # <<>>

\* Container n was handed to convertShape as one unit.
Collapsed(n) == Type(n) \in ContainerTypes /\ pc[n] # "idle" /\ shapeExports[n] # <<>>

\* Node m was converted by a call of its own (a flattened Group by the calls
\* of its children).
ConvertedIndividually(m) ==
    IF Type(m) = "GROUP" /\ pc[m] = "idle"
    THEN \A c \in Range(doc.kids[m]) : pc[c] = "done"
    ELSE pc[m] = "done"

TrackedAttributes ==
    { "fills", "fontSize", "letterSpacing", "lineHeight", "textCase",
      "textDecoration", "fontName" }

PlainStyle == [ a \in TrackedAttributes |-> 0 ]

\* The plain style and the styles that differ from it in one attribute.
TextStyles == { PlainStyle } \cup { [ PlainStyle EXCEPT ![a] = 1 ] : a \in TrackedAttributes }

\* node.getRangeX(start, end) === figma.mixed, for some tracked X: the
\* characters at offsets start .. end - 1 do not agree on X.
rangeMixed(chars, start, end) ==
    \E a \in TrackedAttributes :
        \E i, j \in (start + 1)..end : chars[i][a] # chars[j][a]

Span(start, end) == [ start |-> start, end |-> end ]

\* The while loop of convertText from the given start and end on.
RECURSIVE segmentLoop(_, _, _, _)
segmentLoop(chars, start, end, content) ==
    IF end < Len(chars)
    THEN LET check == end + 1
         IN  IF rangeMixed(chars, start, check)
             THEN segmentLoop(chars, end, end + 1, Append(content, Span(start, end)))
             ELSE segmentLoop(chars, start, end + 1, content)
    ELSE [ start |-> start, end |-> end, content |-> content ]

\* A plausible slip: the run that is open when the loop ends is not emitted.
convertTextSpansNoTail(chars) ==
    IF ~rangeMixed(chars, 0, Len(chars))
    THEN <<Span(0, Len(chars))>>
    ELSE segmentLoop(chars, 0, 1, <<>>).content

convertTextSpans(chars) ==
    IF ~rangeMixed(chars, 0, Len(chars))
    THEN <<Span(0, Len(chars))>>
    ELSE LET r == segmentLoop(chars, 0, 1, <<>>)
         IN  Append(r.content, Span(r.start, r.end))

TextInit ==
    /\ doc = EmptyDoc
    /\ ConvInit
    /\ parked = <<>>
    /\ pathRun = PathIdle
    /\ \E len \in 0..MaxTextLen :
          \E chars \in [ 1..len -> TextStyles ] :
              textRun = [ step |-> "given", chars |-> chars, spans |-> <<>> ]
    /\ layoutRun = LayoutIdle
    /\ paintRun = PaintIdle
    /\ compiled = NotCompiled
    /\ ui = UiIdle

ConvertText ==
    /\ textRun.step = "given"
    /\ textRun' = [ textRun EXCEPT !.step = "spans",
                                   !.spans = convertTextSpans(textRun.chars) ]
    /\ UNCHANGED << doc, convVars, parked, pathRun, layoutRun, paintRun, uiVars >>

TextNext == ConvertText

TextSpec == TextInit /\ [][TextNext]_vars

(***************************************************************************)
(* C15.  convertText emits one span over the whole string when the tracked *)
(* attributes are uniform; otherwise one span per maximal run of           *)
(* characters with constant attributes, the spans covering the string from *)
(* 0 to its length without gap or overlap, in order; a single change at    *)
(* offset k gives the spans [0, k) and [k, n).                             *)
(***************************************************************************)
StyleChanges(chars) == { k \in 1..(Len(chars) - 1) : chars[k] # chars[k + 1] }

C15_SpansAreMaximalRuns ==
    textRun.step = "spans" =>
        LET chars == textRun.chars
            spans == textRun.spans
            n == Len(chars)
        IN  /\ StyleChanges(chars) = {} => spans = <<Span(0, n)>>
            /\ StyleChanges(chars) # {} =>
                  /\ Len(spans) = Cardinality(StyleChanges(chars)) + 1
                  /\ spans[1].start = 0
                  /\ spans[Len(spans)].end = n
                  /\ \A i \in DOMAIN spans :
                        /\ spans[i].start < spans[i].end
                        /\ \A j, k \in (spans[i].start + 1)..spans[i].end :
                              chars[j] = chars[k]
                  /\ \A i \in 1..(Len(spans) - 1) :
                        /\ spans[i].end = spans[i + 1].start
                        /\ spans[i].end \in StyleChanges(chars)
            /\ \A k \in 1..(n - 1) :
                  StyleChanges(chars) = {k} => spans = <<Span(0, k), Span(k, n)>>

\* Three characters, the style changing once, after the first.
C15_Witness ==
    /\ textRun.step = "spans"
    /\ Len(textRun.chars) = 3
    /\ StyleChanges(textRun.chars) = {1}
    /\ textRun.spans = <<Span(0, 1), Span(1, 3)>>

(***************************************************************************)
(* getLayoutStyle on its own.  Its input is what it reads of the node and  *)
(* of the parent it walks to: the node's type, layoutMode, constraints and *)
(* layoutAlign, the distances `bounds` of the node's bounding box from the *)
(* parent's, the parent's layoutMode, constraints and itemSpacing, the     *)
(* last Group skipped on the way to the parent (if any), and isFirstChild. *)
(* A style is a map from property to value; a value is a number of pixels, *)
(* a percentage (kept as a fraction), a keyword or a bare number.          *)
(***************************************************************************)
Px(v) == [ u |-> "px", v |-> v ]
Pct(num, den) == [ u |-> "%", num |-> num, den |-> den ]
Kw(word) == [ u |-> "kw", w |-> word ]
Num(v) == [ u |-> "", v |-> v ]

NoGroup == [ present |-> FALSE, layoutAlign |-> "MIN", width |-> 0, height |-> 0,
             dx |-> 0, dy |-> 0, first |-> TRUE ]
\* A Group between the node and the auto-layout frame; dx and dy are
\* node.x - lastGroupParent.x and node.y - lastGroupParent.y.
SomeGroup == [ present |-> TRUE, layoutAlign |-> "CENTER", width |-> 3, height |-> 3,
               dx |-> 1, dy |-> 1, first |-> FALSE ]

Constraints == { "MIN", "CENTER", "MAX", "STRETCH", "SCALE" }
LayoutAligns == { "MIN", "CENTER", "MAX", "STRETCH" }
LayoutModes == { "NONE", "VERTICAL", "HORIZONTAL" }

\* The kinds of node and position: type, own layoutMode, lastGroupParent,
\* isFirstChild.
LayoutShapes ==
    { [ type |-> "RECTANGLE", layoutMode |-> "NONE", group |-> NoGroup, isFirstChild |-> TRUE ],
      [ type |-> "RECTANGLE", layoutMode |-> "NONE", group |-> NoGroup, isFirstChild |-> FALSE ],
      [ type |-> "RECTANGLE", layoutMode |-> "NONE", group |-> SomeGroup, isFirstChild |-> TRUE ],
      [ type |-> "RECTANGLE", layoutMode |-> "NONE", group |-> SomeGroup, isFirstChild |-> FALSE ],
      [ type |-> "FRAME", layoutMode |-> "NONE", group |-> NoGroup, isFirstChild |-> FALSE ],
      [ type |-> "FRAME", layoutMode |-> "VERTICAL", group |-> NoGroup, isFirstChild |-> TRUE ],
      [ type |-> "FRAME", layoutMode |-> "HORIZONTAL", group |-> NoGroup, isFirstChild |-> TRUE ],
      [ type |-> "TEXT", layoutMode |-> "NONE", group |-> NoGroup, isFirstChild |-> TRUE ] }

LayoutInput(shape, cH, cV, align, parentMode, l, r, t, b) ==
    [ type |-> shape.type, layoutMode |-> shape.layoutMode,
      lastGroupParent |-> shape.group, isFirstChild |-> shape.isFirstChild,
      constraints |-> [ horizontal |-> cH, vertical |-> cV ],
      layoutAlign |-> align,
      bounds |-> [ left |-> l, right |-> r, top |-> t, bottom |-> b,
                   width |-> 1, height |-> 1 ],
      parent |-> [ layoutMode |-> parentMode,
                   constraints |-> [ horizontal |-> "MIN", vertical |-> "MIN" ],
                   itemSpacing |-> 1 ],
      verticalPadding |-> IF shape.layoutMode = "NONE" THEN 0 ELSE 1,
      horizontalPadding |-> IF shape.layoutMode = "NONE" THEN 0 ELSE 2,
      textAlignVertical |-> "CENTER", textAlignHorizontal |-> "LEFT" ]

\* A plausible slip: layoutAlign not put in the place of the constraint.
anchorsWhateverLayoutAlign(node) ==
    [ cHorizontal |-> node.constraints.horizontal,
      vHorizontal |-> node.constraints.vertical ]

\* cHorizontal and vHorizontal once the auto-layout branches have run.
anchors(node) ==
    LET g == node.lastGroupParent
        align == IF g.present THEN g.layoutAlign ELSE node.layoutAlign
    IN  [ cHorizontal |-> IF node.parent.layoutMode = "VERTICAL" THEN align
                          ELSE node.constraints.horizontal,
          vHorizontal |-> IF node.parent.layoutMode = "HORIZONTAL" THEN align
                          ELSE node.constraints.vertical ]

layoutOuterClass(node) ==
    CASE node.parent.layoutMode = "VERTICAL" -> "autolayoutVchild"
      [] node.parent.layoutMode = "HORIZONTAL" -> "autolayoutHchild"
      [] OTHER -> "outerDiv"

PutIf(cond, f, k, v) == IF cond THEN Put(f, k, v) ELSE f

\* The outer style set in the branch of a VERTICAL auto-layout parent.
outerOfVchild(node) ==
    LET g == node.lastGroupParent
        b == node.bounds
        o1 == PutIf(g.present, <<>>, "padding-bottom", Px(g.height - b.height - g.dy))
        o2 == IF ~node.isFirstChild
              THEN IF g.present THEN Put(o1, "margin-top", Px((-g.height) + g.dy))
                   ELSE PutIf(node.parent.constraints.vertical # "STRETCH", o1,
                              "margin-top", Px(node.parent.itemSpacing))
              ELSE PutIf(node.parent.constraints.vertical # "STRETCH" /\ g.present
                            /\ ~g.first,
                         o1, "margin-top", Px(node.parent.itemSpacing))
    IN  PutIf(node.type \in ConvertibleTypes /\ node.layoutMode = "NONE",
              o2, "min-height", Px(b.height))

\* The outer style set in the branch of a HORIZONTAL auto-layout parent.
outerOfHchild(node) ==
    LET g == node.lastGroupParent
        b == node.bounds
        o1 == PutIf(g.present, <<>>, "padding-right", Px(g.width - b.width - g.dx))
    IN  IF ~node.isFirstChild
        THEN IF g.present THEN Put(o1, "margin-left", Px((-g.width) + g.dx))
             ELSE PutIf(node.parent.constraints.horizontal # "STRETCH", o1,
                        "margin-left", Px(node.parent.itemSpacing))
        ELSE PutIf(node.parent.constraints.horizontal # "STRETCH" /\ g.present
                      /\ ~g.first,
                   o1, "margin-left", Px(node.parent.itemSpacing))

\* A plausible slip: the constraint of the other axis consulted.
innerOfAutolayoutCrossAxis(node) ==
    IF node.layoutMode = "NONE" THEN <<>>
    ELSE LET i1 == Put(Put(<<>>, "display", Kw("flex")), "padding",
                       [ u |-> "px px", v |-> node.verticalPadding,
                         h |-> node.horizontalPadding ])
         IN  IF node.layoutMode = "VERTICAL"
             THEN PutIf(node.constraints.horizontal = "STRETCH",
                        Put(i1, "flex-direction", Kw("column")),
                        "justify-content", Kw("space-between"))
             ELSE PutIf(node.constraints.vertical = "STRETCH", i1,
                        "justify-content", Kw("space-between"))

\* The inner style of a node that is itself an auto-layout frame.
innerOfAutolayout(node) ==
    IF node.layoutMode = "NONE" THEN <<>>
    ELSE LET i1 == Put(Put(<<>>, "display", Kw("flex")), "padding",
                       [ u |-> "px px", v |-> node.verticalPadding,
                         h |-> node.horizontalPadding ])
         IN  IF node.layoutMode = "VERTICAL"
             THEN PutIf(node.constraints.vertical = "STRETCH",
                        Put(i1, "flex-direction", Kw("column")),
                        "justify-content", Kw("space-between"))
             ELSE PutIf(node.constraints.horizontal = "STRETCH", i1,
                        "justify-content", Kw("space-between"))

Style(inner, outer) == [ inner |-> inner, outer |-> outer ]

\* if (outerClass !== "autolayoutHchild") { ... } on cHorizontal
horizontalTranslation(S, node, cHorizontal) ==
    LET b == node.bounds
        i == S.inner
        o == S.outer
    IN  CASE cHorizontal = "STRETCH" ->
               Style(Put(Put(Put(i, "margin-left", Px(b.left)),
                             "margin-right", Px(b.right)), "flex-grow", Num(1)), o)
          [] cHorizontal = "MAX" ->
               Style(Put(Put(Put(i, "margin-right", Px(b.right)),
                             "width", Px(b.width)), "min-width", Px(b.width)),
                     Put(o, "justify-content", Kw("flex-end")))
          [] cHorizontal = "CENTER" ->
               \* if (bounds.left && bounds.right): both must be non-zero
               Style(PutIf(b.left # 0 /\ b.right # 0,
                           Put(i, "width", Px(b.width)),
                           "margin-left", Px(b.left - b.right)),
                     Put(o, "justify-content", Kw("center")))
          [] cHorizontal = "SCALE" ->
               LET parentWidth == b.left + b.width + b.right
               IN  Style(Put(Put(i, "width", Pct(b.width * 100, parentWidth)),
                             "margin-left", Pct(b.left * 100, parentWidth)), o)
          [] OTHER ->
               Style(Put(Put(Put(i, "margin-left", Px(b.left)),
                             "width", Px(b.width)), "min-width", Px(b.width)), o)

\* if (outerClass !== "autolayoutVchild") { ... } on vHorizontal
verticalTranslation(S, node, vHorizontal) ==
    LET b == node.bounds
        i == S.inner
        o == S.outer
    IN  CASE vHorizontal = "STRETCH" ->
               Style(Put(Put(Put(i, "margin-top", Px(b.top)),
                             "margin-bottom", Px(b.bottom)), "flex-grow", Num(1)),
                     Put(o, "height", Kw("100%")))
          [] vHorizontal = "MAX" ->
               Style(Put(Put(Put(i, "margin-bottom", Px(b.bottom)),
                             "height", Px(b.height)), "min-height", Px(b.height)),
                     Put(Put(o, "align-items", Kw("flex-end")), "height", Kw("100%")))
          [] vHorizontal = "CENTER" ->
               Style(Put(Put(i, "height", Px(b.height)),
                         "margin-top", Px(b.top - b.bottom)),
                     Put(o, "align-items", Kw("center")))
          [] vHorizontal = "SCALE" ->
               LET parentWidth == b.top + b.height + b.bottom
               IN  Style(Put(Put(i, "height", Pct(b.height * 100, parentWidth)),
                             "margin-top", Pct(b.top * 100, parentWidth)), o)
          [] OTHER ->
               Style(Put(Put(Put(i, "margin-top", Px(b.top)),
                             "height", Px(b.height)), "min-height", Px(b.height)), o)

\* if (node.type === "TEXT") { ... }
textAlignment(S, node) ==
    IF node.type # "TEXT" THEN S
    ELSE LET i1 == Put(S.inner, "display", Kw("flex"))
             i2 == CASE node.textAlignVertical = "CENTER" ->
                          Put(i1, "align-items", Kw("center"))
                     [] node.textAlignVertical = "BOTTOM" ->
                          Put(i1, "align-items", Kw("flex-end"))
                     [] OTHER -> i1
             i3 == CASE node.textAlignHorizontal = "CENTER" ->
                          Put(i2, "justify-content", Kw("center"))
                     [] node.textAlignHorizontal = "RIGHT" ->
                          Put(i2, "justify-content", Kw("flex-end"))
                     [] OTHER -> i2
         IN  Style(i3, S.outer)

getLayoutStyle(node) ==
    LET cls == layoutOuterClass(node)
        a == anchors(node)
        S0 == Style(innerOfAutolayout(node),
                    CASE cls = "autolayoutVchild" -> outerOfVchild(node)
                      [] cls = "autolayoutHchild" -> outerOfHchild(node)
                      [] OTHER -> <<>>)
        S1 == IF cls # "autolayoutHchild"
              THEN horizontalTranslation(S0, node, a.cHorizontal) ELSE S0
        S2 == IF cls # "autolayoutVchild"
              THEN verticalTranslation(S1, node, a.vHorizontal) ELSE S1
        S3 == textAlignment(S2, node)
    IN  [ inner |-> S3.inner, outer |-> S3.outer, outerClass |-> cls ]

LayoutInit ==
    /\ doc = EmptyDoc
    /\ ConvInit
    /\ parked = <<>>
    /\ pathRun = PathIdle
    /\ textRun = TextIdle
    /\ paintRun = PaintIdle
    /\ compiled = NotCompiled
    /\ ui = UiIdle
    /\ \E shape \in LayoutShapes, cH \in Constraints, cV \in Constraints,
          align \in LayoutAligns, parentMode \in LayoutModes,
          l \in 0..MaxMargin, r \in 0..MaxMargin, t \in 0..MaxMargin, b \in 0..MaxMargin :
          /\ shape.group.present => parentMode # "NONE"
          /\ layoutRun = [ step |-> "given",
                           node |-> LayoutInput(shape, cH, cV, align, parentMode, l, r, t, b) ]

GetLayoutStyle ==
    /\ layoutRun.step = "given"
    /\ layoutRun' = [ step |-> "styled", node |-> layoutRun.node,
                      layout |-> getLayoutStyle(layoutRun.node) ]
    /\ UNCHANGED << doc, convVars, parked, pathRun, textRun, paintRun, uiVars >>

LayoutNext == GetLayoutStyle

LayoutSpec == LayoutInit /\ [][LayoutNext]_vars

(***************************************************************************)
(* C16.  A node anchored CENTER on an axis that no auto-layout parent owns *)
(* gets center alignment in the outer style on that axis, its size in the  *)
(* inner style, and an inner leading margin of the leading distance minus  *)
(* the trailing one, whatever the two distances are, horizontally as       *)
(* vertically.                                                             *)
(***************************************************************************)
Has(style, k, v) == k \in DOMAIN style /\ style[k] = v

\* The margin k is v pixels; a margin that is not set is a margin of 0.
Margin(style, k, v) == Has(style, k, Px(v)) \/ (v = 0 /\ k \notin DOMAIN style)

C16_CenterAnchorMargins ==
    (layoutRun.step = "styled" /\ layoutRun.node.parent.layoutMode = "NONE") =>
        LET node == layoutRun.node
            b == node.bounds
            inner == layoutRun.layout.inner
            outer == layoutRun.layout.outer
        IN  /\ node.constraints.horizontal = "CENTER" =>
                  /\ Has(outer, "justify-content", Kw("center"))
                  /\ Has(inner, "width", Px(b.width))
                  /\ Margin(inner, "margin-left", b.left - b.right)
            /\ node.constraints.vertical = "CENTER" =>
                  /\ Has(outer, "align-items", Kw("center"))
                  /\ Has(inner, "height", Px(b.height))
                  /\ Margin(inner, "margin-top", b.top - b.bottom)

(***************************************************************************)
(* C20.  For a direct child of a VERTICAL auto-layout container the inner  *)
(* style gets nothing from the vertical constraint (no margin-top,         *)
(* margin-bottom, height, min-height), whatever the constraint, and the    *)
(* horizontal translation is the one of the child's layoutAlign, not of    *)
(* its horizontal constraint; for a child of a HORIZONTAL container the    *)
(* same with the axes exchanged.                                           *)
(***************************************************************************)
Restrict(style, keys) == [ k \in DOMAIN style \cap keys |-> style[k] ]

HorizontalInner == { "margin-left", "margin-right", "width", "min-width" }
VerticalInner == { "margin-top", "margin-bottom", "height", "min-height" }

NoStyle == Style(<<>>, <<>>)

C20_AutolayoutChildAxes ==
    (layoutRun.step = "styled" /\ ~layoutRun.node.lastGroupParent.present) =>
        LET node == layoutRun.node
            inner == layoutRun.layout.inner
            outer == layoutRun.layout.outer
            byAlignH == horizontalTranslation(NoStyle, node, node.layoutAlign)
            byAlignV == verticalTranslation(NoStyle, node, node.layoutAlign)
        IN  /\ node.parent.layoutMode = "VERTICAL" =>
                  /\ DOMAIN inner \cap VerticalInner = {}
                  /\ Restrict(inner, HorizontalInner \cup { "flex-grow" }) = byAlignH.inner
                  /\ Restrict(outer, { "justify-content" }) = byAlignH.outer
            /\ node.parent.layoutMode = "HORIZONTAL" =>
                  /\ DOMAIN inner \cap HorizontalInner = {}
                  /\ Restrict(inner, VerticalInner \cup { "flex-grow" }) = byAlignV.inner
                  /\ Restrict(outer, { "align-items", "height" }) = byAlignV.outer

\* A child of a VERTICAL container, anchored MIN horizontally and STRETCH
\* vertically, with layoutAlign STRETCH: it is stretched horizontally and
\* gets no vertical margin.
C20_Witness ==
    /\ layoutRun.step = "styled"
    /\ ~layoutRun.node.lastGroupParent.present
    /\ layoutRun.node.parent.layoutMode = "VERTICAL"
    /\ layoutRun.node.constraints = [ horizontal |-> "MIN", vertical |-> "STRETCH" ]
    /\ layoutRun.node.layoutAlign = "STRETCH"
    /\ layoutRun.node.bounds.left = 1
    /\ Has(layoutRun.layout.inner, "margin-left", Px(1))
    /\ Has(layoutRun.layout.inner, "flex-grow", Num(1))
    /\ "margin-top" \notin DOMAIN layoutRun.layout.inner
    /\ "width" \notin DOMAIN layoutRun.layout.inner


(***************************************************************************)
(* C17.  In the bundle compileForNetlify makes of a conversion result,     *)
(* every asset the converter registered under a provisional key is filed   *)
(* under the hash of its bytes: its path maps to the digest of its bytes   *)
(* and that digest maps to the bytes.  No provisional key is a value of    *)
(* files or a key of blobs, and every hash in files is a key of blobs.     *)
(***************************************************************************)
Packaged == compiled.handled > 0
PackagedData == posted[compiled.handled].content

C17_ProvisionalAssetsRehashed ==
    Packaged =>
        /\ \A key \in DOMAIN PackagedData.images :
              key.provisional =>
                  LET img == PackagedData.images[key]
                      hash == sha1(BufferFrom(img.bytes))
                  IN  /\ ImageFile(img.path) \in DOMAIN compiled.files
                      /\ compiled.files[ImageFile(img.path)] = hash
                      /\ hash \in DOMAIN compiled.blobs
                      /\ compiled.blobs[hash] = img.bytes
        /\ \A file \in DOMAIN compiled.files :
              /\ ~compiled.files[file].provisional
              /\ compiled.files[file] \in DOMAIN compiled.blobs
        /\ \A hash \in DOMAIN compiled.blobs : ~hash.provisional

\* A result with a page, a raster export and an image fetched by its hash
\* has been packaged.
C17_Witness ==
    /\ Packaged
    /\ DOMAIN PackagedData.pathToHtml # {}
    /\ \E key \in DOMAIN PackagedData.images : key.provisional
    /\ \E key \in DOMAIN PackagedData.images : ~key.provisional


(***************************************************************************)
(* C18.  convertShape's export protocol.  The SVG export is attempted, and *)
(* attempted first, unless some fill of the node is an image paint, in     *)
(* which case it is never attempted.  The PNG export is attempted exactly  *)
(* when the SVG export was skipped or has failed.  Every successful PNG    *)
(* export has put an asset under a provisional key by the time the node's  *)
(* markup is returned, and nothing else puts one: a successful SVG export  *)
(* registers no asset.                                                     *)
(***************************************************************************)
ShapeStarted(n) == pc[n] \in { "svg", "png" } \/ shapeExports[n] # <<>>
ExportAttempted(n, format) ==
    \/ pc[n] = (IF format = "SVG" THEN "svg" ELSE "png")
    \/ \E i \in DOMAIN shapeExports[n] : shapeExports[n][i].format = format

C18_ExportProtocol ==
    /\ \A n \in Nodes :
          ShapeStarted(n) =>
              /\ ExportAttempted(n, "SVG") <=> ~hasImage(n)
              /\ ~hasImage(n) /\ shapeExports[n] # <<>> => shapeExports[n][1].format = "SVG"
              /\ ExportAttempted(n, "PNG") <=> (hasImage(n) \/ ExportFailed(n, "SVG"))
              /\ ExportSucceeded(n, "SVG") => ~ExportAttempted(n, "PNG")
              /\ ExportSucceeded(n, "PNG") => pc[n] = "done" /\ result[n] # <<>>
    /\ Cardinality(ProvisionalAssets)
          = Cardinality({ n \in Nodes : ExportSucceeded(n, "PNG") })

\* One conversion in which a shape with an image fill went straight to PNG,
\* and another shape came to PNG through a failed SVG export.
C18_Witness ==
    /\ \E n \in Nodes : hasImage(n) /\ ExportSucceeded(n, "PNG")
    /\ \E n \in Nodes : ~hasImage(n) /\ ExportFailed(n, "SVG") /\ ExportSucceeded(n, "PNG")


(***************************************************************************)
(* C19.  Of the Groups convertChildren comes to, in a finished conversion: *)
(* a visible Group that is not a decorative subtree is made a flex         *)
(* container of its own, "column" under a vertical auto-layout parent and  *)
(* "row" under a horizontal one, holding the markup of its children,       *)
(* exactly when its parent is a node with a layout mode other than NONE;   *)
(* otherwise it leaves no element and no call of its own, and its children *)
(* are converted into the element of the nearest ancestor that has one.    *)
(* An invisible Group leaves nothing, nor does any node below it.  The     *)
(* elements of a page follow the order of the document.                    *)
(***************************************************************************)
OpenAt(path, i, m) == pathToHtml[path][i].k = "open" /\ pathToHtml[path][i].id = m
CloseAt(path, i, m) == pathToHtml[path][i].k = "close" /\ pathToHtml[path][i].id = m

\* The element of m, if it has one, and the class of its opening tag.
HasElement(m) ==
    \E path \in DOMAIN pathToHtml : \E i \in DOMAIN pathToHtml[path] : OpenAt(path, i, m)
ElementClasses(m) ==
    { pathToHtml[path][i].cls :
        <<path, i>> \in { pi \in UNION { { <<q, j>> : j \in DOMAIN pathToHtml[q] } :
                                         q \in DOMAIN pathToHtml } :
                            OpenAt(pi[1], pi[2], m) } }

\* The element of c lies between the opening and the closing tag of a.
Inside(c, a) ==
    \E path \in DOMAIN pathToHtml :
        \E i, j, k \in DOMAIN pathToHtml[path] :
            i < j /\ j < k /\ OpenAt(path, i, a) /\ OpenAt(path, j, c) /\ CloseAt(path, k, a)

AutolayoutParent(g) ==
    /\ Type(ParentOf(g)) \in ConvertibleTypes
    /\ doc.node[ParentOf(g)].layoutMode # "NONE"

\* The nearest ancestor of g that has an element of its own.
RECURSIVE Host(_)
Host(g) ==
    LET p == ParentOf(g)
    IN  IF Type(p) = "GROUP" /\ ~HasElement(p) /\ ParentOf(p) # NoNode THEN Host(p) ELSE p

ReachedGroups ==
    { g \in Nodes \ TopSet : Type(g) = "GROUP" /\ ~InHiddenSubtree(ParentOf(g)) }

FlexContainer(node, inner) ==
    /\ Has(inner, "display", Kw("flex"))
    /\ Has(inner, "padding", [ u |-> "px px", v |-> node.verticalPadding,
                               h |-> node.horizontalPadding ])
    /\ IF node.layoutMode = "VERTICAL" THEN Has(inner, "flex-direction", Kw("column"))
       ELSE "flex-direction" \notin DOMAIN inner

SpaceBetween(inner) == Has(inner, "justify-content", Kw("space-between"))

MainAxisConstraint(node) ==
    IF node.layoutMode = "VERTICAL" THEN node.constraints.vertical
    ELSE node.constraints.horizontal

CrossAxisConstraint(node) ==
    IF node.layoutMode = "VERTICAL" THEN node.constraints.horizontal
    ELSE node.constraints.vertical

C21_SpaceBetweenOnCrossAxisStretch ==
    (layoutRun.step = "styled" /\ layoutRun.node.layoutMode # "NONE") =>
        /\ FlexContainer(layoutRun.node, layoutRun.layout.inner)
        /\ SpaceBetween(layoutRun.layout.inner)
              <=> CrossAxisConstraint(layoutRun.node) = "STRETCH"

\* C21 as amended: the justification is "space-between" exactly when the
\* node's own constraint on the axis of its layout direction is STRETCH
\* (the vertical constraint of a VERTICAL node, the horizontal constraint of
\* a HORIZONTAL one).
C21_SpaceBetweenOnLayoutAxisStretch ==
    (layoutRun.step = "styled" /\ layoutRun.node.layoutMode # "NONE") =>
        /\ FlexContainer(layoutRun.node, layoutRun.layout.inner)
        /\ SpaceBetween(layoutRun.layout.inner)
              <=> MainAxisConstraint(layoutRun.node) = "STRETCH"

\* A VERTICAL node stretched vertically and not horizontally is justified
\* "space-between".
C21_Witness ==
    /\ layoutRun.step = "styled"
    /\ layoutRun.node.layoutMode = "VERTICAL"
    /\ layoutRun.node.constraints = [ horizontal |-> "MIN", vertical |-> "STRETCH" ]
    /\ FlexContainer(layoutRun.node, layoutRun.layout.inner)
    /\ SpaceBetween(layoutRun.layout.inner)


(***************************************************************************)
(* getBackgroundStyleForPaints and getStrokeStyleForPaints on their own: a *)
(* paint list is resolved as a fill list and as a stroke list, and so is   *)
(* the list that keeps it up to its first visible paint and has other      *)
(* paints after that.                                                      *)
(***************************************************************************)
GradientPaint(type) == [ type |-> type, visible |-> TRUE, hash |-> 0 ]
HiddenPaint == [ type |-> "SOLID", visible |-> FALSE, hash |-> 0 ]

\* An image paint of hash 0 is one whose imageHash is null.
PaintChoices ==
    { SolidPaint, HiddenPaint }
    \cup { ImagePaint(hash) : hash \in 0..MaxHash }
    \cup { GradientPaint(type) : type \in { "GRADIENT_LINEAR", "GRADIENT_RADIAL",
                                            "GRADIENT_DIAMOND", "GRADIENT_ANGULAR" } }

\* The index of the first visible paint, 0 if there is none.
FirstVisible(paints) ==
    IF \E i \in DOMAIN paints : paints[i].visible
    THEN CHOOSE i \in DOMAIN paints :
            paints[i].visible /\ \A j \in 1..(i - 1) : ~paints[j].visible
    ELSE 0

\* images after the resolution r, starting from an empty table.
paintAssets(r) ==
    IF r.kind = "image" THEN registerImage([ images |-> <<>> ], r.hash).images ELSE <<>>

resolveFill(paints) ==
    LET r == getBackgroundStyleForPaints(paints)
    IN  [ style |-> r, images |-> paintAssets(r) ]

resolveStroke(paints) ==
    LET r == getStrokeStyleForPaints(paints)
    IN  [ style |-> r, images |-> paintAssets(r) ]

PaintInit ==
    /\ doc = EmptyDoc
    /\ ConvInit
    /\ parked = <<>>
    /\ pathRun = PathIdle
    /\ textRun = TextIdle
    /\ layoutRun = LayoutIdle
    /\ compiled = NotCompiled
    /\ ui = UiIdle
    /\ \E len \in 0..MaxPaints, tail \in 0..MaxTail :
          \E paints \in [ 1..len -> PaintChoices ], others \in [ 1..tail -> PaintChoices ] :
              paintRun = [ step |-> "given", paints |-> paints,
                           changed |-> SubSeq(paints, 1, FirstVisible(paints)) \o others ]

ResolvePaints ==
    /\ paintRun.step = "given"
    /\ paintRun' = [ step |-> "resolved", paints |-> paintRun.paints,
                     changed |-> paintRun.changed,
                     fill |-> resolveFill(paintRun.paints),
                     stroke |-> resolveStroke(paintRun.paints),
                     fillChanged |-> resolveFill(paintRun.changed),
                     strokeChanged |-> resolveStroke(paintRun.changed) ]
    /\ UNCHANGED << doc, convVars, parked, pathRun, textRun, layoutRun, uiVars >>

PaintNext == ResolvePaints

PaintSpec == PaintInit /\ [][PaintNext]_vars

(***************************************************************************)
(* C22.  In fill and in stroke resolution the paints that are not visible  *)
(* are skipped, and when the first visible paint is a solid, an image with *)
(* a hash, or a linear or radial gradient, the style and the asset table   *)
(* come from that paint alone: they are the same whatever paints follow    *)
(* it in the list.                                                         *)
(***************************************************************************)
Usable(paint) ==
    \/ paint.type \in { "SOLID", "GRADIENT_LINEAR", "GRADIENT_RADIAL" }
    \/ paint.type = "IMAGE" /\ paint.hash # 0

\* The style and the assets the paint alone gives.
OfPaintAlone(paint) ==
    [ style |-> [ kind |-> CASE paint.type = "SOLID" -> "solid"
                             [] paint.type = "IMAGE" -> "image"
                             [] paint.type = "GRADIENT_LINEAR" -> "linear"
                             [] OTHER -> "radial",
                  hash |-> paint.hash ],
      images |-> IF paint.type = "IMAGE"
                 THEN (HashKey(paint.hash) :> [ bytes |-> paint.hash,
                                                path |-> HashKey(paint.hash) ])
                 ELSE <<>> ]

FirstVisiblePaint == paintRun.paints[FirstVisible(paintRun.paints)]

C22_FirstUsablePaintDecides ==
    ( /\ paintRun.step = "resolved"
      /\ FirstVisible(paintRun.paints) > 0
      /\ Usable(FirstVisiblePaint) ) =>
        /\ paintRun.fill = OfPaintAlone(FirstVisiblePaint)
        /\ paintRun.stroke = OfPaintAlone(FirstVisiblePaint)
        /\ paintRun.fillChanged = paintRun.fill
        /\ paintRun.strokeChanged = paintRun.stroke

\* A hidden paint, then an image paint, and the same list with another
\* image paint added after them.
C22_Witness ==
    /\ paintRun.step = "resolved"
    /\ paintRun.paints = << HiddenPaint, ImagePaint(1) >>
    /\ paintRun.changed = << HiddenPaint, ImagePaint(1), ImagePaint(2) >>
    /\ paintRun.fill.style.kind = "image"
    /\ DOMAIN paintRun.fillChanged.images = { HashKey(1) }


(***************************************************************************)
(* C23.  When the first visible paint of a list is a diamond or an angular *)
(* gradient, the list resolves, as a fill list and as a stroke list, to an *)
(* empty style and to no asset, without an error, whatever paints follow   *)
(* the gradient.                                                           *)
(***************************************************************************)
Unsupported(paint) == paint.type \in { "GRADIENT_DIAMOND", "GRADIENT_ANGULAR" }

NothingResolved == [ style |-> Resolved("none", 0), images |-> <<>> ]

C23_UnsupportedGradientGivesNothing ==
    ( /\ paintRun.step = "resolved"
      /\ FirstVisible(paintRun.paints) > 0
      /\ Unsupported(FirstVisiblePaint) ) =>
        /\ paintRun.stroke = NothingResolved
        /\ paintRun.strokeChanged = NothingResolved
        /\ paintRun.fill = NothingResolved
        /\ paintRun.fillChanged = NothingResolved


(***************************************************************************)
(* C24.  In a finished conversion every handler of the markup names an     *)
(* entry of the action list, and that entry is the effect of the reaction  *)
(* the handler was emitted for (magic_runAction(i) runs actions[i], the    *)
(* list being numbered from 0); no two handlers name the same entry and no *)
(* reaction has two entries, in whatever order the conversions of sibling  *)
(* nodes went on.  Of the reactions of a node whose element carries its    *)
(* handlers, each one with a recognised trigger has its entry and its      *)
(* handler, and each one with another trigger has neither.                 *)
(***************************************************************************)
\* The places of the handlers in the markup: page, token, attribute.
HandlerPlaces ==
    { place \in UNION { UNION { { <<path, i, k>> : k \in DOMAIN pathToHtml[path][i].ev } :
                                i \in DOMAIN pathToHtml[path] } :
                        path \in DOMAIN pathToHtml } : TRUE }

HandlerAt(place) == pathToHtml[place[1]][place[2]].ev[place[3]]
HandlerNode(place) == pathToHtml[place[1]][place[2]].id

\* actions[i] of the code, whose lists are numbered from 0.
ActionOf(actionId) == actions[actionId + 1]

\* The nodes whose reactions eventHandlingAttributes was given and whose
\* element was emitted: every node with an element but a Group made a flex
\* container.
EmittedWithHandlers == { n \in Nodes : HasElement(n) /\ (Type(n) # "GROUP" \/ Collapsed(n)) }

C28_EveryActionHasItsHandler ==
    Finished =>
        \A i \in DOMAIN actions :
            \E place \in HandlerPlaces : HandlerAt(place).actionId + 1 = i


(***************************************************************************)
(* getBoundingBox and the bounds of getLayoutStyle on their own: a node    *)
(* placed by its absoluteTransform under a chain of Groups inside a frame, *)
(* each with a transform and a size of its own, is measured and styled.    *)
(* The transforms are the rotations by right angles, which keep the        *)
(* coordinates whole numbers.                                              *)
(***************************************************************************)
\* absoluteTransform of a node turned by k right angles and moved to (tx, ty)
RightAngle(k, tx, ty) ==
    [ m00 |-> CASE k = 0 -> 1 [] k = 2 -> -1 [] OTHER -> 0,
      m01 |-> CASE k = 1 -> -1 [] k = 3 -> 1 [] OTHER -> 0,
      m02 |-> tx,
      m10 |-> CASE k = 1 -> 1 [] k = 3 -> -1 [] OTHER -> 0,
      m11 |-> CASE k = 0 -> 1 [] k = 2 -> -1 [] OTHER -> 0,
      m12 |-> ty ]

PlacedNode(type, k, tx, ty, width, height) ==
    [ type |-> type, turns |-> k, absoluteTransform |-> RightAngle(k, tx, ty),
      width |-> width, height |-> height ]

MinOf(S) == CHOOSE x \in S : \A y \in S : x <= y
MaxOf(S) == CHOOSE x \in S : \A y \in S : x >= y

getBoundingBox(node) ==
    LET m == node.absoluteTransform
        p1 == << m.m02, m.m12 >>
        p2 == << m.m01 * node.height + m.m02, m.m11 * node.height + m.m12 >>
        p3 == << m.m00 * node.width + m.m02, m.m10 * node.width + m.m12 >>
        p4 == << m.m00 * node.width + m.m01 * node.height + m.m02,
                 m.m10 * node.width + m.m11 * node.height + m.m12 >>
        x == MinOf({ p1[1], p2[1], p3[1], p4[1] })
        y == MinOf({ p1[2], p2[2], p3[2], p4[2] })
        xMax == MaxOf({ p1[1], p2[1], p3[1], p4[1] })
        yMax == MaxOf({ p1[2], p2[2], p3[2], p4[2] })
    IN  [ x |-> x, y |-> y, width |-> xMax - x, height |-> yMax - y ]

\* A plausible slip: the box of the direct parent taken, Group or not.
layoutParentDirect(ancestors) == Head(ancestors)

\* while (parent.type === "GROUP") parent = parent.parent; ancestors lists
\* the parent, its parent, and so on.
RECURSIVE layoutParent(_)
layoutParent(ancestors) ==
    IF Head(ancestors).type = "GROUP" THEN layoutParent(Tail(ancestors))
    ELSE Head(ancestors)

\* const bounds = { left: x - px, right: px + parentBounds.width - (x + width), ... }
layoutBounds(node, ancestors) ==
    LET box == getBoundingBox(node)
        parentBounds == getBoundingBox(layoutParent(ancestors))
    IN  [ left |-> box.x - parentBounds.x,
          right |-> parentBounds.x + parentBounds.width - (box.x + box.width),
          top |-> box.y - parentBounds.y,
          bottom |-> parentBounds.y + parentBounds.height - (box.y + box.height),
          width |-> box.width, height |-> box.height ]

\* The Groups of a chain, the nearest first: each is turned and sized in its
\* own way, unlike the frame.
GroupAt(i) == PlacedNode("GROUP", i % 4, i, 0, i, 1)
\* The frame of a chain, turned by k right angles.
FrameTurned(k) == PlacedNode("FRAME", k, 0, 0, MaxSize + 2, MaxSize + 1)

BoundsInit ==
    /\ doc = EmptyDoc
    /\ ConvInit
    /\ parked = <<>>
    /\ pathRun = PathIdle
    /\ textRun = TextIdle
    /\ paintRun = PaintIdle
    /\ compiled = NotCompiled
    /\ ui = UiIdle
    /\ \E k \in 0..3, tx \in 0..MaxShift, ty \in 0..MaxShift,
          width \in 1..MaxSize, height \in 1..MaxSize,
          depth \in 0..MaxGroupDepth, fk \in 0..3,
          cH \in { "MIN", "SCALE" }, cV \in { "MIN", "SCALE" } :
          layoutRun = [ step |-> "placed",
                        placed |-> PlacedNode("RECTANGLE", k, tx, ty, width, height),
                        ancestors |-> [ i \in 1..depth |-> GroupAt(i) ] \o << FrameTurned(fk) >>,
                        constraints |-> [ horizontal |-> cH, vertical |-> cV ] ]

\* getLayoutStyle from its first line: the boxes, the bounds, the style.
MeasureLayout ==
    /\ layoutRun.step = "placed"
    /\ LET r == layoutRun
           shape == [ type |-> r.placed.type, layoutMode |-> "NONE",
                      group |-> IF Len(r.ancestors) > 1 THEN SomeGroup ELSE NoGroup,
                      isFirstChild |-> TRUE ]
           node == [ LayoutInput(shape, r.constraints.horizontal, r.constraints.vertical,
                                 "MIN", "NONE", 0, 0, 0, 0)
                       EXCEPT !.bounds = layoutBounds(r.placed, r.ancestors) ]
       IN  layoutRun' = [ step |-> "measured", placed |-> r.placed,
                          ancestors |-> r.ancestors, node |-> node,
                          layout |-> getLayoutStyle(node) ]
    /\ UNCHANGED << doc, convVars, parked, pathRun, textRun, paintRun, uiVars >>

BoundsNext == MeasureLayout

BoundsSpec == BoundsInit /\ [][BoundsNext]_vars

(***************************************************************************)
(* C25.  The four margins of a node are taken between its axis-aligned     *)
(* bounding box and that of its nearest ancestor that is not a Group,      *)
(* however many Groups lie between: left + width + right is the width of   *)
(* that ancestor's box and top + height + bottom its height, and under a   *)
(* SCALE constraint the percentages are taken of exactly that span.        *)
(***************************************************************************)
\* The box of a node turned by right angles, by its turns and not by its
\* corners: an odd number of turns swaps width and height.
TurnedSize(node) ==
    IF node.turns % 2 = 1 THEN [ width |-> node.height, height |-> node.width ]
    ELSE [ width |-> node.width, height |-> node.height ]

\* The ancestor that is not a Group: the last of the chain.
FrameOf(ancestors) == ancestors[Len(ancestors)]

C25_MarginsSpanTheFrame ==
    layoutRun.step = "measured" =>
        LET b == layoutRun.node.bounds
            box == getBoundingBox(layoutRun.placed)
            frame == getBoundingBox(FrameOf(layoutRun.ancestors))
            inner == layoutRun.layout.inner
        IN  /\ box.width = TurnedSize(layoutRun.placed).width
            /\ box.height = TurnedSize(layoutRun.placed).height
            /\ frame.width = TurnedSize(FrameOf(layoutRun.ancestors)).width
            /\ frame.height = TurnedSize(FrameOf(layoutRun.ancestors)).height
            /\ b.left = box.x - frame.x
            /\ b.top = box.y - frame.y
            /\ b.width = box.width /\ b.height = box.height
            /\ b.left + b.width + b.right = frame.width
            /\ b.top + b.height + b.bottom = frame.height
            /\ layoutRun.node.constraints.horizontal = "SCALE" =>
                  /\ Has(inner, "width", Pct(box.width * 100, frame.width))
                  /\ Has(inner, "margin-left", Pct(b.left * 100, frame.width))
            /\ layoutRun.node.constraints.vertical = "SCALE" =>
                  /\ Has(inner, "height", Pct(box.height * 100, frame.height))
                  /\ Has(inner, "margin-top", Pct(b.top * 100, frame.height))

\* A node turned by one right angle under two Groups in a frame turned the
\* other way, scaled on both axes.
C25_Witness ==
    /\ layoutRun.step = "measured"
    /\ layoutRun.placed.turns = 1
    /\ layoutRun.placed.width = 2 /\ layoutRun.placed.height = 1
    /\ Len(layoutRun.ancestors) = 3
    /\ FrameOf(layoutRun.ancestors).turns = 3
    /\ layoutRun.node.constraints = [ horizontal |-> "SCALE", vertical |-> "SCALE" ]
    /\ layoutRun.node.bounds.width = 1
    /\ layoutRun.node.bounds.left + 1 + layoutRun.node.bounds.right = 3

(***************************************************************************)
(* C26.  Once the routing table is built, every path that a convertible    *)
(* top-level node is named for has exactly one node flagged desktop, and   *)
(* no convertible top-level node of that path is wider than it, whatever   *)
(* the number and the order of the nodes sharing the path.                 *)
(***************************************************************************)
SharingPath(path) == { n \in ConvertibleTop : PathOf(n) = path }

EntryHasDocument(content) ==
    /\ content.startFrameId \in DOMAIN content.frameIdToPath
    /\ content.frameIdToPath[content.startFrameId] \in DOMAIN content.pathToHtml

C27_EntryPointHasDocument ==
    \A i \in DOMAIN posted :
        posted[i].content.startFrameId \in ConvertibleTop
            => EntryHasDocument(posted[i].content)

\* The page whose top-left-most frame is the favicon: it is the entry node,
\* it is exported as the icon, and no document is generated for its path.
C27_FaviconIsEntry ==
    /\ Finished
    /\ doc.start = NoNode
    /\ Len(doc.top) = 2
    /\ ConvertibleTop = { 1, 2 }
    /\ doc.node[1].name = NmFavicon
    /\ posted[1].content.startFrameId = 1
    /\ posted[1].content.frameIdToPath[1] \notin DOMAIN posted[1].content.pathToHtml
    /\ posted[1].content.favicon # NoBytes

(***************************************************************************)
(* C29.  When the first visible paint of a list is an image paint without  *)
(* content hash, the list resolves, as a fill list and as a stroke list,   *)
(* without an error, to no style and to no asset.                          *)
(***************************************************************************)
NullHashImage(paint) == paint.type = "IMAGE" /\ paint.hash = 0

C29_NullHashImageGivesNothing ==
    ( /\ paintRun.step = "resolved"
      /\ FirstVisible(paintRun.paints) > 0
      /\ NullHashImage(FirstVisiblePaint) ) =>
        /\ paintRun.fill = NothingResolved
        /\ paintRun.stroke = NothingResolved

\* The conversion of a page holding a rectangle filled with such a paint is
\* rejected when the fill is resolved, and no result is posted.
C29_ConversionRejected ==
    /\ runPc = "failed"
    /\ posted = <<>>
    /\ \E n \in Nodes :
          /\ doc.node[n].fills = <<ImagePaint(0)>>
          /\ pc[n] = "rejected"

(***************************************************************************)
(* A deploy, from the click on the button to the end of deploySite.  The   *)
(* answers of the network are the environment's choice: a status code, or  *)
(* a rejected request.  ui.step is the await at which deploySite stands.   *)
(***************************************************************************)
SiteChoices == { "new", "site1" }
StatusChoices == { 200, 201, 404, 500 }

\* The pages deployed: an empty page, a page of one frame named favicon.ico,
\* and the trees of one frame holding a rectangle and a leaf of every kind.
DeployDocs ==
    { EntryDoc(k, [ n \in 1..k |-> "FRAME" ], [ n \in 1..k |-> 0 ],
               [ n \in 1..k |-> 0 ], FALSE, k = 1) : k \in 0..1 }
    \cup { TreeDoc([ type |-> "FRAME", layout |-> "NONE" ],
                   [ type |-> "RECTANGLE", fills |-> <<SolidPaint>> ], l4, 0,
                   [ nodes |-> {}, triggers |-> <<>> ]) :
               l4 \in LeafKinds({1}) \cup { NullImageLeaf } }

DeployInit ==
    /\ doc \in DeployDocs
    /\ ConvInit
    /\ parked = <<>>
    /\ pathRun = PathIdle
    /\ textRun = TextIdle
    /\ layoutRun = LayoutIdle
    /\ paintRun = PaintIdle
    /\ compiled = NotCompiled
    /\ \E site \in SiteChoices : ui = [ UiIdle EXCEPT !.siteId = site ]

\* deploy: setDeploying(true), and the "run" message is sent after 100 ms.
Deploy ==
    /\ ui.step = "ready"
    /\ ~ui.deploying /\ ~ui.deployed
    /\ ui' = [ ui EXCEPT !.deploying = TRUE, !.step = "run-sent" ]
    /\ UNCHANGED << doc, convVars, parked, pureVars, compiled >>

\* main's handler receives the "run" message and calls run().
RunRequested ==
    /\ ui.step = "run-sent"
    /\ runPc = "idle"
    /\ Commit(convertStart(Cur))
    /\ ui' = [ ui EXCEPT !.step = "waiting" ]
    /\ UNCHANGED << doc, parked, pureVars, compiled >>

\* const compiled = compileForNetlify(conversionResult), then the POST of
\* the deploy is sent.
startPosting(to) ==
    LET site == compileForNetlify(posted[1].content)
    IN  /\ compiled' = [ handled |-> 1, files |-> site.files, blobs |-> site.blobs ]
        /\ ui' = [ ui EXCEPT !.step = to ]

\* handleMessage gets the conversion result and calls deploySite, which runs
\* up to its first await.
ResultReceived ==
    /\ ui.step = "waiting"
    /\ Len(posted) > 0
    /\ IF ui.siteId \in { "new", "" }
       THEN ui' = [ ui EXCEPT !.step = "creating" ] /\ UNCHANGED compiled
       ELSE startPosting("posting")
    /\ UNCHANGED << doc, convVars, parked, pureVars >>

\* createNewSite's request is answered: 201 gives the new site, any other
\* status gives "" and deploySite returns.
SiteCreated(status) ==
    /\ ui.step \in { "creating", "recreating" }
    /\ IF status = 201
       THEN IF ui.step = "creating"
            THEN LET site == compileForNetlify(posted[1].content)
                 IN  /\ compiled' = [ handled |-> 1, files |-> site.files,
                                      blobs |-> site.blobs ]
                     /\ ui' = [ ui EXCEPT !.step = "posting", !.siteId = "created" ]
            ELSE /\ ui' = [ ui EXCEPT !.step = "reposting", !.siteId = "created" ]
                 /\ UNCHANGED compiled
       ELSE ui' = [ ui EXCEPT !.step = "returned" ] /\ UNCHANGED compiled
    /\ UNCHANGED << doc, convVars, parked, pureVars >>

\* The POST of the deploy is answered: 404 on the first attempt creates a
\* site and posts again, any status but 200 otherwise makes deploySite
\* return.
DeployAnswered(status) ==
    /\ ui.step \in { "posting", "reposting" }
    /\ ui' = [ ui EXCEPT !.step =
                 IF status = 404 /\ ui.step = "posting" THEN "recreating"
                 ELSE IF status = 200 THEN "uploading"
                 ELSE "returned" ]
    /\ UNCHANGED << doc, convVars, parked, pureVars, compiled >>

\* A request of deploySite is rejected: the await throws and the promise of
\* deploySite, which nobody awaits, is rejected.
RequestRejected ==
    /\ ui.step \in { "creating", "recreating", "posting", "reposting", "uploading" }
    /\ ui' = [ ui EXCEPT !.step = "rejected" ]
    /\ UNCHANGED << doc, convVars, parked, pureVars, compiled >>

\* Promise.all(uploads) resolves: setDeploying(false), setDeployed(true).
UploadsDone ==
    /\ ui.step = "uploading"
    /\ ui' = [ ui EXCEPT !.step = "done", !.deploying = FALSE, !.deployed = TRUE ]
    /\ UNCHANGED << doc, convVars, parked, pureVars, compiled >>

DeployNext ==
    \/ Deploy
    \/ RunRequested
    \/ \E n \in Nodes : StrokeResolved(n)
    \/ \E n \in Nodes : FillResolved(n)
    \/ \E n \in Nodes : FetchFailed(n)
    \/ \E n \in Nodes : TimerFired(n)
    \/ \E n \in Nodes : ChildrenJoined(n)
    \/ \E n \in Nodes : SvgExported(n)
    \/ \E n \in Nodes : SvgFailed(n)
    \/ \E n \in Nodes : PngExported(n)
    \/ \E n \in Nodes : PngFailed(n)
    \/ \E n \in Nodes : FaviconExported(n)
    \/ \E n \in Nodes : FaviconFailed(n)
    \/ ConversionRejected
    \/ ResultReceived
    \/ \E status \in StatusChoices : SiteCreated(status)
    \/ \E status \in StatusChoices : DeployAnswered(status)
    \/ RequestRejected
    \/ UploadsDone

DeploySpec == DeployInit /\ [][DeployNext]_vars

\* Every step of the plugin and of the UI that can be taken is taken in the
\* end: the event loops run, and every request is answered or rejected.
DeployLiveSpec == DeploySpec /\ WF_vars(DeployNext)

(***************************************************************************)
(* C30.  Once the user has started a deploy, the UI eventually leaves the  *)
(* deploying state, whether the conversion, the creation of the site or    *)
(* the deploy request fails or everything succeeds.                        *)
(***************************************************************************)
C30_DeployingEnds == ui.deploying ~> ~ui.deploying

\* deploySite or run has ended and the progress bar is still shown.
StuckDeploying ==
    /\ ui.deploying
    /\ \/ ui.step \in { "returned", "rejected" }
       \/ ui.step = "waiting" /\ runPc = "failed"

\* The deploy that succeeds.
DeploySucceeded == ui.step = "done" /\ ui.deployed /\ ~ui.deploying

=============================================================================
